---- MODULE Spec2Model ----
(***************************************************************************)
(* Model of backend/matching/profile_matching.py: the interest-vector      *)
(* codec (normalize_interests), the L2AP inverted index (L2APIndex), the   *)
(* k-NN query (l2ap_knn) and the index life cycle kept by                  *)
(* ProfileMatchingService.                                                 *)
(*                                                                         *)
(* Numbers.  Every float of the program is a non-negative real x, and is   *)
(* represented here by the integer  Scale * x^2.  The order of the reals   *)
(* is the order of their representations, products and quotients are       *)
(* exact, and so are the sums, differences and square roots the program    *)
(* takes (all of them are of the form sqrt(a/b) with a, b small integers). *)
(* Floating-point rounding is not modelled: arithmetic is over the reals.  *)
(***************************************************************************)
EXTENDS Integers, Sequences, FiniteSets, TLC

\* ----------------------------------------------------------------- bounds
NumFeatures == 3
NumUsers == 2

Features == 1..NumFeatures
UIDs == 1..NumUsers

\* ----------------------------------------------------------------- reals
RECURSIVE Fact(_)
Fact(n) == IF n <= 1 THEN 1 ELSE n * Fact(n - 1)

\* Scale = (NumFeatures!)^2 makes Scale / (m*n) and Scale / n^2 integers for
\* all vector sizes m, n <= NumFeatures.
Scale == Fact(NumFeatures) * Fact(NumFeatures)

Zero == 0
One == Scale

RECURSIVE IsqrtIter(_, _, _)
IsqrtIter(x, lo, hi) ==
    IF lo >= hi THEN lo
    ELSE LET mid == (lo + hi + 1) \div 2
         IN IF mid * mid <= x THEN IsqrtIter(x, mid, hi) ELSE IsqrtIter(x, lo, mid - 1)

\* Integer square root; every argument the model passes is a perfect square.
Isqrt(x) == IsqrtIter(x, 0, IF x < 46340 THEN x ELSE 46340)

Mul(a, b) == (a * b) \div Scale          \* x * y
Div(a, b) == (a * Scale) \div b          \* x / y
Add(a, b) == a + b + 2 * Isqrt(a * b)    \* x + y
Sub(a, b) == a + b - 2 * Isqrt(a * b)    \* x - y   (x >= y)
Sqrt(a) == Isqrt(Scale * a)              \* math.sqrt(x)
Max2(a, b) == IF a >= b THEN a ELSE b    \* max(x, y)

\* x + y < z, decided exactly: sqrt(A) + sqrt(B) < sqrt(C) iff
\* C > A + B and 4AB < (C - A - B)^2.
SumLt(a, b, c) == c > a + b /\ 4 * a * b < (c - a - b) * (c - a - b)

\* ----------------------------------------------------------------- state
VARIABLES
    store,            \* Firestore collection "users": uid -> profile
    hash_order,       \* iteration order of a Python set of tags in this process
    index,            \* ProfileMatchingService.index (an L2APIndex)
    index_built,      \* ProfileMatchingService.index_built
    index_built_at,   \* ProfileMatchingService.index_built_at (None: -1)
    now,              \* time.time()
    knn_in,           \* arguments of a direct l2ap_knn call
    knn_out,          \* what that call returned
    last,             \* the service call that ended last
    th,               \* the request threads: their place in the code and their locals
    norm_in,          \* arguments of direct normalize_interests calls
    norm_out,         \* what those calls returned
    events,           \* Firestore collection "hiking_events": event id -> document
    swipes,           \* Firestore collection "swipes": (user, target) -> action
    matches           \* Firestore collection "matches": the match documents

vars ==
    <<store, hash_order, index, index_built, index_built_at, now, knn_in, knn_out, last, th,
      norm_in, norm_out, events, swipes, matches>>

\* ----------------------------------------------------------------- sequences
RECURSIVE Perms(_)
Perms(S) ==
    IF S = {} THEN {<<>>}
    ELSE UNION {{<<x>> \o p : p \in Perms(S \ {x})} : x \in S}

Range(s) == {s[i] : i \in 1..Len(s)}

\* list.sort(key=lambda x: x[1], reverse=True) and sorted(..., reverse=True):
\* descending by the second component, stable (equal keys keep their order).
RECURSIVE InsertDesc(_, _)
InsertDesc(s, x) ==
    IF Len(s) = 0 THEN <<x>>
    ELSE IF s[Len(s)][2] >= x[2] THEN Append(s, x)
    ELSE Append(InsertDesc(SubSeq(s, 1, Len(s) - 1), x), s[Len(s)])

RECURSIVE SortDescFrom(_, _, _)
SortDescFrom(done, s, i) ==
    IF i > Len(s) THEN done ELSE SortDescFrom(InsertDesc(done, s[i]), s, i + 1)

SortDesc(s) == SortDescFrom(<<>>, s, 1)

\* ----------------------------------------------------------------- tags
\* A raw tag is 0 (a string of white space only), f in Features (the tag of
\* feature f, lower case and trimmed) or NumFeatures + f (the same tag in
\* another casing, or padded with blanks).
RawTags == 0..(2 * NumFeatures)

\* interest.lower().strip(); 0 stands for the empty string
LowerStrip(tag) == IF tag = 0 THEN 0 ELSE ((tag - 1) % NumFeatures) + 1

\* Iteration of a Python set of strings: an order fixed by the process's
\* string hashes, unknown to the program.
RECURSIVE SetIterFrom(_, _)
SetIterFrom(S, i) ==
    IF i > Len(hash_order) THEN <<>>
    ELSE (IF hash_order[i] \in S THEN <<hash_order[i]>> ELSE <<>>) \o SetIterFrom(S, i + 1)

SetIter(S) == SetIterFrom(S, 1)

\* sum(v * v for v in vector.values()), over the first n entries
RECURSIVE SumSq(_, _)
SumSq(vector, n) ==
    IF n = 0 THEN Zero ELSE Add(SumSq(vector, n - 1), Mul(vector[n][2], vector[n][2]))

\* normalize_interests that leaves every weight at 1.0 (no unit length)
normalize_interests_without_norm(interests) ==
    IF Len(interests) = 0 THEN <<>>
    ELSE LET unique_interests == {LowerStrip(interests[i]) : i \in 1..Len(interests)} \ {0}
         IN IF unique_interests = {} THEN <<>>
            ELSE LET keys == SetIter(unique_interests)
                 IN [i \in 1..Len(keys) |-> <<keys[i], One>>]

\* normalize_interests that keeps each tag as it is written (no lower(),
\* no strip()) and drops only the empty string
normalize_interests_as_written(interests) ==
    IF Len(interests) = 0 THEN <<>>
    ELSE LET unique_interests == {interests[i] : i \in 1..Len(interests)} \ {0}
         IN IF unique_interests = {} THEN <<>>
            ELSE LET written(tag) == tag \in unique_interests
                     keys == SelectSeq([tag \in 1..(2 * NumFeatures) |-> tag], written)
                     vector == [i \in 1..Len(keys) |-> <<keys[i], One>>]
                     norm == Sqrt(SumSq(vector, Len(vector)))
                 IN [i \in 1..Len(vector) |-> <<vector[i][1], Div(vector[i][2], norm)>>]

\* A vector (a dict feature -> weight) is the sequence of its items
\* <<feature, weight>> in the dict's order.
normalize_interests(interests) ==
    IF Len(interests) = 0 THEN <<>>
    ELSE LET unique_interests == {LowerStrip(interests[i]) : i \in 1..Len(interests)} \ {0}
         IN IF unique_interests = {} THEN <<>>
            ELSE LET keys == SetIter(unique_interests)
                     vector == [i \in 1..Len(keys) |-> <<keys[i], One>>]
                     norm == Sqrt(SumSq(vector, Len(vector)))
                 IN IF norm > Zero
                    THEN [i \in 1..Len(vector) |-> <<vector[i][1], Div(vector[i][2], norm)>>]
                    ELSE vector

\* profile_data of a well-formed profile: its "interests" list
get_profile_vector(profile_data) ==
    LET interests == profile_data.interests
    IN IF Len(interests) = 0 THEN <<>> ELSE normalize_interests(interests)

\* ----------------------------------------------------------------- index
EmptyIndex ==
    [inverted_index |-> <<>>, doc_metadata |-> <<>>, feature_freq |-> <<>>, doc_ids |-> {}]

RECURSIVE MaxValue(_, _)
MaxValue(vector, n) ==
    IF n = 0 THEN Zero ELSE Max2(MaxValue(vector, n - 1), vector[n][2])

Put(f, key, val) == [x \in DOMAIN f \cup {key} |-> IF x = key THEN val ELSE f[x]]

RECURSIVE AppendPostings(_, _, _, _, _)
AppendPostings(idx, doc_id, sorted_features, prefix_norms, i) ==
    IF i > Len(sorted_features) THEN idx
    ELSE LET feature == sorted_features[i][1]
             value == sorted_features[i][2]
             old == IF feature \in DOMAIN idx.inverted_index
                    THEN idx.inverted_index[feature] ELSE <<>>
             freq == IF feature \in DOMAIN idx.feature_freq
                     THEN idx.feature_freq[feature] ELSE 0
         IN AppendPostings(
                [idx EXCEPT
                    !.inverted_index =
                        Put(@, feature, Append(old, <<doc_id, value, prefix_norms[i]>>)),
                    !.feature_freq = Put(@, feature, freq + 1)],
                doc_id, sorted_features, prefix_norms, i + 1)

RECURSIVE PScore(_, _, _)
PScore(sorted_features, prefix_norms, n) ==
    IF n = 0 THEN Zero
    ELSE Max2(PScore(sorted_features, prefix_norms, n - 1),
              Mul(sorted_features[n][2], prefix_norms[n]))

add_document(idx, doc_id, vector) ==
    IF Len(vector) = 0 THEN idx
    ELSE LET vector_norm == Sqrt(SumSq(vector, Len(vector)))
         IN IF vector_norm = Zero THEN idx
            ELSE LET max_value == MaxValue(vector, Len(vector))
                     sorted_features == SortDesc(vector)
                     prefix_norms ==
                         [i \in 1..Len(sorted_features) |-> Sqrt(SumSq(sorted_features, i))]
                     pscore == PScore(sorted_features, prefix_norms, Len(sorted_features))
                     withMeta ==
                         [idx EXCEPT
                             !.doc_metadata = Put(@, doc_id, <<pscore, max_value, vector_norm>>),
                             !.doc_ids = @ \cup {doc_id}]
                 IN AppendPostings(withMeta, doc_id, sorted_features, prefix_norms, 1)

\* for feature in self.inverted_index: self.inverted_index[feature].sort(...)
SortPostings(idx, features) ==
    [idx EXCEPT !.inverted_index =
        [f \in DOMAIN @ |-> IF f \in features THEN SortDesc(@[f]) ELSE @[f]]]

\* get_profile_vector raises on a malformed profile (AttributeError or
\* TypeError out of normalize_interests)
VectorRaises(profile_data) == profile_data.kind = "bad"

\* The loop "for doc_id, profile_data in profiles.items()" of build_index;
\* profiles is the dict built from users_ref.stream(), a sequence of
\* <<uid, profile_data>> in the order of the stream.  The loop ends at the
\* first profile whose vector raises.
RECURSIVE AddAll(_, _, _)
AddAll(idx, profiles, i) ==
    IF i > Len(profiles) THEN [index |-> idx, raised |-> FALSE]
    ELSE IF VectorRaises(profiles[i][2]) THEN [index |-> idx, raised |-> TRUE]
    ELSE LET vector == get_profile_vector(profiles[i][2])
         IN AddAll(IF Len(vector) > 0 THEN add_document(idx, profiles[i][1], vector) ELSE idx,
                   profiles, i + 1)

\* the four clear() calls
Clear(idx) == EmptyIndex

\* build_index with the clear() calls left out
build_index_without_clear(idx, profiles) ==
    LET added == AddAll(idx, profiles, 1)
    IN IF added.raised THEN added
       ELSE [index |-> SortPostings(added.index, DOMAIN added.index.inverted_index),
             raised |-> FALSE]

\* L2APIndex.build_index on the index idx: [index, raised], the index as the
\* call leaves it and whether it raised
build_index(idx, profiles) ==
    LET added == AddAll(Clear(idx), profiles, 1)
    IN IF added.raised THEN added
       ELSE [index |-> SortPostings(added.index, DOMAIN added.index.inverted_index),
             raised |-> FALSE]

get_ordered_features(vector) == SortDesc(vector)

\* ----------------------------------------------------------------- heapq
\* Heap items are tuples (similarity, doc_id), compared as Python compares
\* tuples; doc ids are numbered in the order of their strings.
ItemLt(a, b) == a[1] < b[1] \/ (a[1] = b[1] /\ a[2] < b[2])

RECURSIVE SiftDown(_, _, _, _)
SiftDown(heap, startpos, pos, newitem) ==
    IF pos > startpos
    THEN LET parentpos == (pos - 1) \div 2
             parent == heap[parentpos + 1]
         IN IF ItemLt(newitem, parent)
            THEN SiftDown([heap EXCEPT ![pos + 1] = parent], startpos, parentpos, newitem)
            ELSE [heap EXCEPT ![pos + 1] = newitem]
    ELSE [heap EXCEPT ![pos + 1] = newitem]

heappush(heap, item) ==
    LET appended == Append(heap, item)
    IN SiftDown(appended, 0, Len(appended) - 1, item)

RECURSIVE SiftUp(_, _, _, _)
SiftUp(heap, startpos, pos, newitem) ==
    LET endpos == Len(heap)
        left == 2 * pos + 1
        rightpos == left + 1
        childpos == IF rightpos < endpos /\ ~ItemLt(heap[left + 1], heap[rightpos + 1])
                    THEN rightpos ELSE left
    IN IF left < endpos
       THEN SiftUp([heap EXCEPT ![pos + 1] = heap[childpos + 1]], startpos, childpos, newitem)
       ELSE SiftDown([heap EXCEPT ![pos + 1] = newitem], startpos, pos, newitem)

heapreplace(heap, item) == SiftUp([heap EXCEPT ![1] = item], 0, 0, item)

\* ----------------------------------------------------------------- l2ap_knn
\* The accumulator (a defaultdict(float)) is its keys in insertion order and
\* its values.
EmptyAcc == [keys |-> <<>>, val |-> <<>>]

AccAdd(acc, doc_id, x) ==
    IF doc_id \in DOMAIN acc.val
    THEN [acc EXCEPT !.val[doc_id] = Add(@, x)]
    ELSE [keys |-> Append(acc.keys, doc_id), val |-> Put(acc.val, doc_id, x)]

\* running_suffix_sq before position i: total_norm_sq less the squares of
\* the values before i
RECURSIVE SuffixSq(_, _, _)
SuffixSq(query_features, total_norm_sq, i) ==
    IF i = 1 THEN total_norm_sq
    ELSE Sub(SuffixSq(query_features, total_norm_sq, i - 1),
             Mul(query_features[i - 1][2], query_features[i - 1][2]))

\* the loop over the postings of one query feature (lines 277-297)
RECURSIVE ScanPostings(_, _, _, _, _, _, _)
ScanPostings(acc, postings, j, query_value, rs4, theta, exclude_doc_ids) ==
    IF j > Len(postings) THEN acc
    ELSE LET doc_id == postings[j][1]
             doc_value == postings[j][2]
             doc_prefix_norm == postings[j][3]
             is_new_candidate == doc_id \notin DOMAIN acc.val \/ acc.val[doc_id] = Zero
             added == AccAdd(acc, doc_id, Mul(query_value, doc_value))
             remaining_bound == Mul(rs4, doc_prefix_norm)
             pruned == IF SumLt(added.val[doc_id], remaining_bound, theta)
                       THEN [added EXCEPT !.val[doc_id] = Zero]
                       ELSE added
         IN IF doc_id \in exclude_doc_ids
            THEN ScanPostings(acc, postings, j + 1, query_value, rs4, theta, exclude_doc_ids)
            ELSE IF is_new_candidate /\ Mul(rs4, doc_prefix_norm) < theta
            THEN ScanPostings(acc, postings, j + 1, query_value, rs4, theta, exclude_doc_ids)
            ELSE ScanPostings(pruned, postings, j + 1, query_value, rs4, theta, exclude_doc_ids)

\* the candidate generation phase (lines 265-297)
RECURSIVE CandidateGeneration(_, _, _, _, _, _, _)
CandidateGeneration(acc, query_features, query_suffix_norms, idx, theta, exclude_doc_ids, i) ==
    IF i > Len(query_features) THEN acc
    ELSE LET query_feature == query_features[i][1]
             query_value == query_features[i][2]
             rs4 == query_suffix_norms[i]
         IN IF rs4 < theta THEN acc
            ELSE IF query_feature \notin DOMAIN idx.inverted_index
            THEN CandidateGeneration(acc, query_features, query_suffix_norms, idx, theta,
                                     exclude_doc_ids, i + 1)
            ELSE CandidateGeneration(
                     ScanPostings(acc, idx.inverted_index[query_feature], 1, query_value,
                                  rs4, theta, exclude_doc_ids),
                     query_features, query_suffix_norms, idx, theta, exclude_doc_ids, i + 1)

\* HeapUpdate with the replacement of the heap minimum left out
HeapUpdateNeverReplaces(st, similarity, doc_id, k) ==
    IF Len(st.heap) < k
    THEN LET pushed == heappush(st.heap, <<similarity, doc_id>>)
         IN [heap |-> pushed,
             theta |-> IF Len(pushed) = k THEN Max2(st.theta, pushed[1][1]) ELSE st.theta]
    ELSE st

\* HeapUpdate that pushes every verified candidate, whatever the heap holds
HeapUpdateAlwaysPushes(st, similarity, doc_id, k) ==
    [heap |-> heappush(st.heap, <<similarity, doc_id>>), theta |-> st.theta]

\* the heap update of one verified candidate (lines 332-338)
HeapUpdate(st, similarity, doc_id, k) ==
    IF Len(st.heap) < k
    THEN LET pushed == heappush(st.heap, <<similarity, doc_id>>)
         IN [heap |-> pushed,
             theta |-> IF Len(pushed) = k THEN Max2(st.theta, pushed[1][1]) ELSE st.theta]
    ELSE IF similarity > st.heap[1][1]
    THEN LET replaced == heapreplace(st.heap, <<similarity, doc_id>>)
         IN [heap |-> replaced, theta |-> replaced[1][1]]
    ELSE st

\* the verification phase (lines 306-338); st is [heap, theta]
RECURSIVE Verification(_, _, _, _, _, _)
Verification(st, acc, idx, k, exclude_doc_ids, n) ==
    IF n > Len(acc.keys) THEN st
    ELSE LET doc_id == acc.keys[n]
             dot_product == acc.val[doc_id]
         IN IF doc_id \in exclude_doc_ids
               \/ dot_product = Zero
               \/ doc_id \notin DOMAIN idx.doc_metadata
            THEN Verification(st, acc, idx, k, exclude_doc_ids, n + 1)
            ELSE IF SumLt(dot_product, idx.doc_metadata[doc_id][1], st.theta)
            THEN Verification(st, acc, idx, k, exclude_doc_ids, n + 1)
            ELSE Verification(HeapUpdate(st, dot_product, doc_id, k), acc, idx, k,
                              exclude_doc_ids, n + 1)

\* l2ap_knn that takes no notice of exclude_doc_ids
l2ap_knn_without_exclusions(query_vector, idx, k, t_min, exclude_doc_ids) ==
    IF Len(query_vector) = 0 THEN <<>>
    ELSE LET query_features == get_ordered_features(query_vector)
             total_norm_sq == SumSq(query_vector, Len(query_vector))
             query_suffix_norms ==
                 [i \in 1..Len(query_features) |->
                     Sqrt(SuffixSq(query_features, total_norm_sq, i))]
             accumulator ==
                 CandidateGeneration(EmptyAcc, query_features, query_suffix_norms, idx,
                                     t_min, {}, 1)
             final == Verification([heap |-> <<>>, theta |-> t_min], accumulator, idx, k,
                                   {}, 1)
             results == [i \in 1..Len(final.heap) |-> <<final.heap[i][2], final.heap[i][1]>>]
         IN SortDesc(results)

\* The result is the list of (doc_id, similarity) pairs.
l2ap_knn(query_vector, idx, k, t_min, exclude_doc_ids) ==
    IF Len(query_vector) = 0 THEN <<>>
    ELSE LET query_features == get_ordered_features(query_vector)
             total_norm_sq == SumSq(query_vector, Len(query_vector))
             query_suffix_norms ==
                 [i \in 1..Len(query_features) |->
                     Sqrt(SuffixSq(query_features, total_norm_sq, i))]
             accumulator ==
                 CandidateGeneration(EmptyAcc, query_features, query_suffix_norms, idx,
                                     t_min, exclude_doc_ids, 1)
             final == Verification([heap |-> <<>>, theta |-> t_min], accumulator, idx, k,
                                   exclude_doc_ids, 1)
             results == [i \in 1..Len(final.heap) |-> <<final.heap[i][2], final.heap[i][1]>>]
         IN SortDesc(results)


\* ----------------------------------------------------------------- store
\* A user document of the collection: absent, or a profile with its
\* "interests" list; a malformed profile holds an interests value that
\* normalize_interests cannot iterate as strings.
NoProfile == [kind |-> "none", interests |-> <<>>]
BadProfile == [kind |-> "bad", interests |-> <<>>]
Profile(interests) == [kind |-> "ok", interests |-> interests]

\* the tags of S as a list, ascending
RECURSIVE ListOf(_)
ListOf(S) ==
    IF S = {} THEN <<>>
    ELSE LET m == CHOOSE x \in S : \A y \in S : x <= y
         IN <<m>> \o ListOf(S \ {m})

\* The interest lists the model stores and queries with: every set of
\* features once, a list of blanks only, and a list with a repeated tag in
\* two casings.
InterestLists ==
    {ListOf(S) : S \in SUBSET Features} \cup {<<0>>, <<NumFeatures + 1, 1>>}

GoodProfiles == {Profile(l) : l \in InterestLists}

\* users_ref.stream(): the documents that exist, in the order of their ids
RECURSIVE StreamFrom(_, _)
StreamFrom(st, uid) ==
    IF uid \notin DOMAIN st THEN <<>>
    ELSE (IF st[uid].kind = "none" THEN <<>> ELSE <<(<<uid, st[uid]>>)>>)
         \o StreamFrom(st, uid + 1)

Stream(st) == StreamFrom(st, 1)

\* ----------------------------------------------------------------- l2ap_knn called directly
\* t_min values: 0, 0.5, sqrt(13)/6 = 0.600.., sqrt(5)/3 = 0.745..,
\* sqrt(3)/2 = 0.866.., 1
TMins ==
    {Zero, Scale \div 4, (13 * Scale) \div 36, (5 * Scale) \div 9, (3 * Scale) \div 4, One}
KValues == 1..NumUsers
ExcludeSets == {{}} \cup {{u} : u \in UIDs}

NotRun == [ran |-> FALSE, results |-> <<>>]
NoNorm == [first |-> <<>>, second |-> <<>>]
NotNormalized == [ran |-> FALSE, first |-> <<>>, second |-> <<>>]
NoEvents == <<>>
NoSwipes == <<>>
NoMatches == {}
NoCall ==
    [op |-> "none", pre_built |-> FALSE, raised |-> FALSE, rebuilt |-> FALSE,
     read_store |-> FALSE, knn_ran |-> FALSE, knn_built |-> FALSE, lookup |-> "none",
     returned_empty |-> FALSE]
NoThreads == <<>>
NoKnn == [interests |-> <<>>, k |-> 1, t_min |-> Zero, exclude |-> {}]

InitKnn ==
    /\ store \in [UIDs -> GoodProfiles \cup {NoProfile}]
    /\ hash_order \in Perms(Features)
    /\ index = build_index(EmptyIndex, Stream(store)).index
    /\ index_built = TRUE
    /\ index_built_at = 0
    /\ now = 0
    /\ norm_in = NoNorm
    /\ norm_out = NotNormalized
    /\ events = NoEvents
    /\ swipes = NoSwipes
    /\ matches = NoMatches
    /\ knn_in \in [interests : InterestLists, k : KValues, t_min : TMins,
                   exclude : ExcludeSets]
    /\ knn_out = NotRun
    /\ last = NoCall
    /\ th = NoThreads

RunKnn ==
    /\ ~knn_out.ran
    /\ knn_out' = [ran |-> TRUE,
                   results |-> l2ap_knn(normalize_interests(knn_in.interests), index,
                                        knn_in.k, knn_in.t_min, knn_in.exclude)]
    /\ UNCHANGED <<swipes, matches, norm_in, norm_out, events, store, hash_order, index,
                   index_built, index_built_at, now, knn_in, last, th>>

NextKnn == RunKnn

SpecKnn == InitKnn /\ [][NextKnn]_vars


\* ----------------------------------------------------------------- claims on l2ap_knn
\* the exact dot product of two vectors: the sum over the features they share
RECURSIVE DotFrom(_, _, _)
DotFrom(qv, dv, i) ==
    IF i > Len(qv) THEN Zero
    ELSE LET shared == {j \in 1..Len(dv) : dv[j][1] = qv[i][1]}
             term == IF shared = {} THEN Zero
                     ELSE Mul(qv[i][2], dv[CHOOSE j \in shared : TRUE][2])
         IN Add(term, DotFrom(qv, dv, i + 1))

ExactSim(qv, dv) == DotFrom(qv, dv, 1)

KnnQuery == normalize_interests(knn_in.interests)
KnnSim(uid) == ExactSim(KnnQuery, get_profile_vector(store[uid]))
KnnIds == {knn_out.results[i][1] : i \in 1..Len(knn_out.results)}

\* results is a brute-force top-n of docs: n distinct documents of docs with
\* their exact similarities, in non-increasing order, and no document left
\* out is more similar than the last one listed (ties in any order).
IsTopN(results, n, docs) ==
    /\ Len(results) = n
    /\ \A i \in 1..n : results[i][1] \in docs /\ results[i][2] = KnnSim(results[i][1])
    /\ \A i, j \in 1..n : i < j =>
           results[i][1] # results[j][1] /\ results[i][2] >= results[j][2]
    /\ \A d \in docs : \A i \in 1..n :
           d \notin {results[j][1] : j \in 1..n} => KnnSim(d) <= results[i][2]

KnnPlainCall ==
    /\ knn_out.ran
    /\ Len(KnnQuery) > 0
    /\ knn_in.t_min = Zero
    /\ knn_in.exclude = {}
    /\ knn_in.k <= Cardinality(index.doc_ids)

\* C1 as stated: with t_min = 0, no exclusions and k up to the number of
\* indexed documents, l2ap_knn returns the first k entries of the brute-force
\* ranking of all indexed documents by exact cosine similarity.
C1_TopKOfAllDocuments ==
    KnnPlainCall => IsTopN(knn_out.results, knn_in.k, index.doc_ids)

SharingDocs == {d \in index.doc_ids : KnnSim(d) > Zero}
MinOf(a, b) == IF a <= b THEN a ELSE b

\* C1 as amended: with t_min = 0, no exclusions and k up to the number of
\* indexed documents, l2ap_knn returns the first min(k, p) entries of the
\* brute-force ranking of the p indexed documents that share a feature with
\* the query; a document of similarity 0 is never returned.
C1_TopKOfSharingDocuments ==
    KnnPlainCall =>
        IsTopN(knn_out.results, MinOf(knn_in.k, Cardinality(SharingDocs)), SharingDocs)

\* C1 witness: a call with k = the number of indexed documents that ranks two
\* documents of different similarity
C1_Witness ==
    /\ KnnPlainCall
    /\ knn_in.k = Cardinality(index.doc_ids)
    /\ Len(knn_out.results) = 2
    /\ knn_out.results[1][2] > knn_out.results[2][2]

\* C2: every returned pair (id, s) has s equal to the full dot product of the
\* query with the indexed vector of id.
C2_FullDotProduct ==
    knn_out.ran =>
        \A i \in 1..Len(knn_out.results) :
            knn_out.results[i][2] = KnnSim(knn_out.results[i][1])

\* C3: every returned similarity is >= t_min.
C3_AtLeastTMin ==
    knn_out.ran =>
        \A i \in 1..Len(knn_out.results) : knn_out.results[i][2] >= knn_in.t_min

\* C4: with t_min > 0 and k >= the number of indexed documents, every
\* non-excluded indexed document whose exact similarity is >= t_min is in the
\* result.
C4_NoQualifyingDocumentLost ==
    (/\ knn_out.ran
     /\ Len(KnnQuery) > 0
     /\ knn_in.t_min > Zero
     /\ knn_in.k >= Cardinality(index.doc_ids))
    => \A d \in index.doc_ids \ knn_in.exclude :
           KnnSim(d) >= knn_in.t_min => d \in KnnIds


\* ----------------------------------------------------------------- ProfileMatchingService
IndexTtlSeconds == 30
None == -1

\* the service object: self.index, self.index_built, self.index_built_at
Self == [index |-> index, index_built |-> index_built, index_built_at |-> index_built_at]

invalidate_index(self) == [self EXCEPT !.index_built = FALSE, !.index_built_at = None]

\* the end of rebuild_index, once build_index has run (lines 431-437)
Rebuilt(self, built) ==
    IF built.raised
    THEN [self |-> [self EXCEPT !.index = built.index], raised |-> TRUE]
    ELSE [self |-> [index |-> built.index, index_built |-> TRUE, index_built_at |-> now],
          raised |-> FALSE]

\* rebuild_index: [self, raised].  db: the users collection as the call
\* finds it; db_down: the stream of the collection raises.  Every exception
\* is re-raised (line 437).
rebuild_index(self, db, db_down) ==
    IF db_down THEN [self |-> self, raised |-> TRUE]
    ELSE Rebuilt(self, build_index(self.index, Stream(db)))

\* _should_rebuild_index that looks at the age of the index only
should_rebuild_index_ttl_only(self) ==
    self.index_built_at # None /\ now - self.index_built_at > IndexTtlSeconds

\* _should_rebuild_index with a bound that is not strict
should_rebuild_index_at_ttl(self) ==
    IF ~self.index_built THEN TRUE
    ELSE IF self.index_built_at # None /\ now - self.index_built_at >= IndexTtlSeconds
    THEN TRUE
    ELSE FALSE

should_rebuild_index(self) ==
    IF ~self.index_built THEN TRUE
    ELSE IF self.index_built_at # None /\ now - self.index_built_at > IndexTtlSeconds
    THEN TRUE
    ELSE FALSE

\* RemoveEntry that leaves uid in doc_ids
RemoveEntryKeepsDocId(idx, uid) ==
    IF uid \notin idx.doc_ids THEN idx
    ELSE LET filtered == [f \in DOMAIN idx.inverted_index |->
                             SelectSeq(idx.inverted_index[f], LAMBDA p : p[1] # uid)]
             kept == {f \in DOMAIN filtered : Len(filtered[f]) > 0}
         IN [idx EXCEPT
                !.inverted_index = [f \in kept |-> filtered[f]],
                !.doc_metadata = [d \in DOMAIN @ \ {uid} |-> @[d]]]

\* the removal of uid's old entry (lines 385-399)
RemoveEntry(idx, uid) ==
    IF uid \notin idx.doc_ids THEN idx
    ELSE LET filtered == [f \in DOMAIN idx.inverted_index |->
                             SelectSeq(idx.inverted_index[f], LAMBDA p : p[1] # uid)]
             kept == {f \in DOMAIN filtered : Len(filtered[f]) > 0}
         IN [idx EXCEPT
                !.inverted_index = [f \in kept |-> filtered[f]],
                !.doc_metadata = [d \in DOMAIN @ \ {uid} |-> @[d]],
                !.doc_ids = @ \ {uid}]

\* the addition of uid's new entry (lines 403-409)
AddEntry(idx, uid, vector) ==
    IF Len(vector) > 0
    THEN SortPostings(add_document(idx, uid, vector), {vector[i][1] : i \in 1..Len(vector)})
    ELSE idx

\* the result of a service call: the service as the call leaves it, whether
\* the call raised, whether a rebuild_index ran to its end in it, and whether
\* it read the document store
Outcome(self, raised, rebuilt, read_store) ==
    [self |-> self, raised |-> raised, rebuilt |-> rebuilt, read_store |-> read_store]

\* a call that is one rebuild_index (lines 381-382, 477, 522)
Rebuild(r) == Outcome(r.self, r.raised, ~r.raised, TRUE)

\* the incremental update from the removal on (lines 402-414)
UpdateEntry(self, removed, uid, profile_data) ==
    IF VectorRaises(profile_data)
    THEN Outcome([self EXCEPT !.index = removed], TRUE, FALSE, FALSE)
    ELSE Outcome(invalidate_index([self EXCEPT !.index =
                     AddEntry(removed, uid, get_profile_vector(profile_data))]),
                 FALSE, FALSE, FALSE)

\* update_user_in_index that returns at once when the index is not built
update_user_in_index_noop_when_stale(self, uid, profile_data, db, db_down) ==
    IF ~self.index_built THEN Outcome(self, FALSE, FALSE, FALSE)
    ELSE UpdateEntry(self, RemoveEntry(self.index, uid), uid, profile_data)

\* update_user_in_index that adds the new entry without removing the old one
update_user_in_index_without_removal(self, uid, profile_data, db, db_down) ==
    IF ~self.index_built THEN Rebuild(rebuild_index(self, db, db_down))
    ELSE UpdateEntry(self, self.index, uid, profile_data)

update_user_in_index(self, uid, profile_data, db, db_down) ==
    IF ~self.index_built THEN Rebuild(rebuild_index(self, db, db_down))
    ELSE UpdateEntry(self, RemoveEntry(self.index, uid), uid, profile_data)

\* the result of a query: the outcome, the list returned, whether l2ap_knn
\* ran and the value of index_built when it did
QueryOutcome(o, results, knn_ran, knn_built, lookup) ==
    [self |-> o.self, raised |-> o.raised, rebuilt |-> o.rebuilt,
     read_store |-> o.read_store, results |-> results, knn_ran |-> knn_ran,
     knn_built |-> knn_built, lookup |-> lookup]

\* the implicit rebuild at the head of a query (lines 476-477, 521-522)
EnsureBuilt(self, need, db, db_down) ==
    IF need THEN Rebuild(rebuild_index(self, db, db_down))
    ELSE Outcome(self, FALSE, FALSE, FALSE)

\* the search that ends a query (lines 490-497, 525-529)
Search(o, query_vector, k, t_min, exclude_set, looked_up) ==
    IF Len(query_vector) = 0
    THEN QueryOutcome(o, <<>>, FALSE, FALSE, IF looked_up THEN "empty" ELSE "none")
    ELSE QueryOutcome(o, l2ap_knn(query_vector, o.self.index, k, t_min, exclude_set),
                      TRUE, o.self.index_built, IF looked_up THEN "found" ELSE "none")

\* Lookup that lets the "not found" of the query user leave the call as an
\* exception
LookupRaisesWhenMissing(o, profile_data, query_uid, k, t_min, exclude_self, db_down) ==
    IF o.raised THEN QueryOutcome(o, <<>>, FALSE, FALSE, "none")
    ELSE IF db_down
    THEN QueryOutcome([o EXCEPT !.read_store = TRUE], <<>>, FALSE, FALSE, "failed")
    ELSE IF profile_data.kind = "none"
    THEN QueryOutcome([o EXCEPT !.read_store = TRUE, !.raised = TRUE], <<>>, FALSE, FALSE,
                      "missing")
    ELSE IF VectorRaises(profile_data)
    THEN QueryOutcome([o EXCEPT !.read_store = TRUE], <<>>, FALSE, FALSE, "malformed")
    ELSE Search([o EXCEPT !.read_store = TRUE], get_profile_vector(profile_data), k, t_min,
                IF exclude_self THEN {query_uid} ELSE {}, TRUE)

\* find_matches after its rebuild (lines 479-501); an exception of the
\* rebuild leaves the call, one of the rest is caught and answered by []
Lookup(o, profile_data, query_uid, k, t_min, exclude_self, db_down) ==
    IF o.raised THEN QueryOutcome(o, <<>>, FALSE, FALSE, "none")
    ELSE IF db_down
    THEN QueryOutcome([o EXCEPT !.read_store = TRUE], <<>>, FALSE, FALSE, "failed")
    ELSE IF profile_data.kind = "none"
    THEN QueryOutcome([o EXCEPT !.read_store = TRUE], <<>>, FALSE, FALSE, "missing")
    ELSE IF VectorRaises(profile_data)
    THEN QueryOutcome([o EXCEPT !.read_store = TRUE], <<>>, FALSE, FALSE, "malformed")
    ELSE Search([o EXCEPT !.read_store = TRUE], get_profile_vector(profile_data), k, t_min,
                IF exclude_self THEN {query_uid} ELSE {}, TRUE)

\* find_matches.  db_down: every call to the document store raises.
find_matches(self, db, query_uid, k, t_min, exclude_self, db_down) ==
    Lookup(EnsureBuilt(self, should_rebuild_index(self), db, db_down), db[query_uid],
           query_uid, k, t_min, exclude_self, db_down)

\* find_matches_by_interests after its rebuild (lines 524-529)
SearchByInterests(o, interests, k, t_min) ==
    IF o.raised THEN QueryOutcome(o, <<>>, FALSE, FALSE, "none")
    ELSE Search(o, normalize_interests(interests), k, t_min, {}, FALSE)

find_matches_by_interests(self, db, interests, k, t_min, db_down) ==
    SearchByInterests(EnsureBuilt(self, should_rebuild_index(self), db, db_down),
                      interests, k, t_min)

\* ----------------------------------------------------------------- service calls, one at a time
\* The profiles of the life-cycle model: the interest lists that are the
\* first tags of the vocabulary, up to NumStoredTags of them (the same tag
\* then has different weights in different profiles); the queries by
\* interests add a blank tag and a tag in another spelling.
NumStoredTags == 2
StoredLists == {ListOf(1..n) : n \in 0..NumStoredTags}
StoredProfiles ==
    {Profile(l) : l \in StoredLists \cup {<<0>>}} \cup {NoProfile, BadProfile}
QueryLists == StoredLists \cup {<<0>>, <<NumFeatures + 1>>}
ServiceKs == {NumUsers}
ServiceTMins == {Zero, (5 * Scale) \div 9}

Init ==
    /\ store \in [UIDs -> StoredProfiles]
    /\ hash_order = ListOf(Features)
    /\ index = EmptyIndex
    /\ index_built = FALSE
    /\ index_built_at = None
    /\ now = 0
    /\ norm_in = NoNorm
    /\ norm_out = NotNormalized
    /\ events = NoEvents
    /\ swipes = NoSwipes
    /\ matches = NoMatches
    /\ knn_in = NoKnn
    /\ knn_out = NotRun
    /\ last = NoCall
    /\ th = NoThreads

Ended(op, o, knn_ran, knn_built, lookup, returned_empty) ==
    /\ index' = o.self.index
    /\ index_built' = o.self.index_built
    /\ index_built_at' = o.self.index_built_at
    /\ last' = [op |-> op, pre_built |-> index_built, raised |-> o.raised,
                rebuilt |-> o.rebuilt, read_store |-> o.read_store, knn_ran |-> knn_ran,
                knn_built |-> knn_built, lookup |-> lookup, returned_empty |-> returned_empty]

\* A write to the collection the service is not told of (another writer, a
\* deleted account).
ExternalWrite ==
    \E uid \in UIDs, p \in StoredProfiles :
        /\ store[uid] # p
        /\ store' = [store EXCEPT ![uid] = p]
        /\ last' = [NoCall EXCEPT !.op = "write", !.pre_built = index_built]
        /\ UNCHANGED <<swipes, matches, norm_in, norm_out, events, hash_order, index,
                       index_built, index_built_at, now, knn_in, knn_out, th>>

\* update_user_profile (signups.py): the document of an existing user is
\* written, read back and handed to update_user_in_index, whose exceptions
\* are logged and dropped.  The sign-up of a new user does the same with a
\* profile of no interests.
UpdateProfile ==
    \E uid \in UIDs, p \in StoredProfiles \ {NoProfile}, db_down \in BOOLEAN :
        /\ store[uid] # NoProfile \/ p = Profile(<<>>)
        /\ store' = [store EXCEPT ![uid] = p]
        /\ \E o \in {update_user_in_index(Self, uid, p, store', db_down)} :
               Ended("update", o, FALSE, FALSE, "none", FALSE)
        /\ UNCHANGED <<swipes, matches, norm_in, norm_out, events, hash_order, now, knn_in,
                       knn_out, th>>

\* POST /matching/rebuild-index
RebuildIndex ==
    \E db_down \in BOOLEAN :
        /\ \E r \in {rebuild_index(Self, store, db_down)} :
               Ended("rebuild", Outcome(r.self, r.raised, ~r.raised, TRUE), FALSE, FALSE, "none",
                     FALSE)
        /\ UNCHANGED <<swipes, matches, norm_in, norm_out, events, store, hash_order, now,
                       knn_in, knn_out, th>>

FindMatches ==
    \E query_uid \in UIDs, k \in ServiceKs, t_min \in ServiceTMins,
       exclude_self \in BOOLEAN, db_down \in BOOLEAN :
        /\ \E q \in {find_matches(Self, store, query_uid, k, t_min, exclude_self, db_down)} :
               Ended("find_matches", q, q.knn_ran, q.knn_built, q.lookup,
                     ~q.raised /\ q.results = <<>>)
        /\ UNCHANGED <<swipes, matches, norm_in, norm_out, events, store, hash_order, now,
                       knn_in, knn_out, th>>

FindMatchesByInterests ==
    \E interests \in QueryLists, k \in ServiceKs, t_min \in ServiceTMins,
       db_down \in BOOLEAN :
        /\ \E q \in {find_matches_by_interests(Self, store, interests, k, t_min, db_down)} :
               Ended("find_matches_by_interests", q, q.knn_ran, q.knn_built, q.lookup,
                     ~q.raised /\ q.results = <<>>)
        /\ UNCHANGED <<swipes, matches, norm_in, norm_out, events, store, hash_order, now,
                       knn_in, knn_out, th>>

Next ==
    \/ ExternalWrite
    \/ UpdateProfile
    \/ RebuildIndex
    \/ FindMatches
    \/ FindMatchesByInterests

Spec == Init /\ [][Next]_vars

\* ----------------------------------------------------------------- claims on the life cycle
ServiceCalls == {"update", "find_matches", "find_matches_by_interests"}

\* the index a build over the present store yields from an empty index
IndexOfStore == build_index(EmptyIndex, Stream(store)).index

\* the tags of uid's stored interest list, as the index spells them
StoredTags(uid) ==
    IF store[uid].kind # "ok" THEN {}
    ELSE {LowerStrip(store[uid].interests[i]) : i \in 1..Len(store[uid].interests)} \ {0}

PostingsOf(idx, f) == IF f \in DOMAIN idx.inverted_index THEN idx.inverted_index[f] ELSE <<>>

\* the index holds exactly the profiles of the store with at least one
\* tag: each such user once in the list of each of its tags, with the
\* weight 1/sqrt(n) of a vector of n tags and the entry an index of that
\* one vector would hold, every list in descending order of weight
IndexMatchesStore ==
    /\ index.doc_ids = {u \in UIDs : StoredTags(u) # {}}
    /\ DOMAIN index.doc_metadata = index.doc_ids
    /\ \A f \in Features :
           LET postings == PostingsOf(index, f)
           IN /\ {postings[i][1] : i \in 1..Len(postings)} = {u \in UIDs : f \in StoredTags(u)}
              /\ Len(postings) = Cardinality({u \in UIDs : f \in StoredTags(u)})
              /\ \A i \in 1..Len(postings) :
                     /\ postings[i][2] = Scale \div Cardinality(StoredTags(postings[i][1]))
                     /\ <<postings[i]>> =
                            PostingsOf(add_document(EmptyIndex, postings[i][1],
                                           get_profile_vector(store[postings[i][1]])), f)
              /\ \A i \in 1..(Len(postings) - 1) : postings[i][2] >= postings[i + 1][2]
    /\ DOMAIN index.inverted_index \subseteq Features
    /\ \A f \in DOMAIN index.inverted_index : Len(index.inverted_index[f]) > 0

\* C7 (as the specification states it): a call of update_user_in_index that
\* starts while the service is Fresh ends with the service Stale, whether
\* it returns or raises.
C7_StaleAfterUpdateWhileFresh ==
    (last.op = "update" /\ last.pre_built) => ~index_built

C9_NoOpWhenStale ==
    (last.op = "update" /\ ~last.pre_built) => (~last.read_store /\ ~index_built)

\* C9 (amended): update_user_in_index called while the service is Stale
\* runs rebuild_index: it reads the document store; when it returns
\* the service is Fresh and the index is the one of the present store; when
\* the rebuild raises, the call raises and the service is still Stale.
C9_RebuildsWhenStale ==
    (last.op = "update" /\ ~last.pre_built) =>
        /\ last.read_store
        /\ last.raised => ~index_built
        /\ ~last.raised => (last.rebuilt /\ index_built /\ index_built_at = now
                            /\ index = IndexOfStore)

\* an update that started while the service was Stale and returned, the
\* index holding a document
C9_Witness ==
    /\ last.op = "update"
    /\ ~last.pre_built
    /\ ~last.raised
    /\ index_built
    /\ index.doc_ids # {}

\* C10: a rebuild_index that returns, whatever the state it started in,
\* leaves the service Fresh with an index that holds exactly the profiles of
\* the present store that have a non-empty vector, each with the postings
\* of that vector; a second rebuild_index over the same store yields the
\* same index.
C10_RebuildMatchesStore ==
    (last.op = "rebuild" /\ ~last.raised) =>
        /\ index_built
        /\ index_built_at = now
        /\ IndexMatchesStore
        /\ \E again \in {rebuild_index(Self, store, FALSE)} :
               ~again.raised /\ again.self.index = index /\ again.self.index_built

\* a rebuild_index that started while the service was Fresh and returned
\* with every user in the index
C10_Witness ==
    /\ last.op = "rebuild"
    /\ last.pre_built
    /\ ~last.raised
    /\ index.doc_ids = UIDs
    /\ \E f \in DOMAIN index.inverted_index : Len(index.inverted_index[f]) = NumUsers

\* ----------------------------------------------------------------- service calls that overlap
\* The endpoints are plain "def" functions, which FastAPI runs on a pool of
\* threads; the service is one object for the process and takes no lock.
\* Each thread makes one call; a call is a sequence of steps, each a read or
\* a write of the store or of the service, and the steps of the threads
\* interleave.  l2ap_knn is taken to read the index at one instant.
NumThreads == 2
Threads == 1..NumThreads
RaceLists == StoredLists
RaceProfiles == {Profile(l) : l \in RaceLists}

Calls ==
    {[op |-> "rebuild", uid |-> 0, arg |-> <<>>]}
    \cup {[op |-> "update", uid |-> u, arg |-> l] : u \in UIDs, l \in RaceLists}
    \cup {[op |-> "find_matches", uid |-> u, arg |-> <<>>] : u \in UIDs}
    \cup {[op |-> "find_matches_by_interests", uid |-> 0, arg |-> l] :
              l \in RaceLists \ {<<>>}}

FirstPc(op) ==
    CASE op = "update" -> "write"
      [] op = "rebuild" -> "stream"
      [] OTHER -> "check"

\* where a call goes on once its rebuild_index has returned
PcAfterRebuild(op) ==
    CASE op = "find_matches" -> "get"
      [] op = "find_matches_by_interests" -> "knn"
      [] OTHER -> "done"

\* a thread before the first step of its call: the call, the position in
\* it, the locals of the call, and what its search found
Thread(call) ==
    [op |-> call.op, uid |-> call.uid, arg |-> call.arg, pc |-> FirstPc(call.op),
     profile_data |-> NoProfile, profiles |-> <<>>, i |-> 0, old |-> EmptyIndex,
     query_vector |-> <<>>, results |-> <<>>, knn_ran |-> FALSE, knn_built |-> FALSE,
     torn |-> FALSE]

InitRace ==
    /\ store \in [UIDs -> RaceProfiles]
    /\ hash_order = ListOf(Features)
    /\ index_built \in BOOLEAN
    /\ index = IF index_built THEN build_index(EmptyIndex, Stream(store)).index
               ELSE EmptyIndex
    /\ index_built_at = IF index_built THEN 0 ELSE None
    /\ now = 0
    /\ norm_in = NoNorm
    /\ norm_out = NotNormalized
    /\ events = NoEvents
    /\ swipes = NoSwipes
    /\ matches = NoMatches
    /\ knn_in = NoKnn
    /\ knn_out = NotRun
    /\ last = NoCall
    /\ th \in [Threads -> {Thread(call) : call \in Calls}]

\* update_user_profile: doc_ref.update(firestore_updates)
WriteStore(t) ==
    /\ th[t].pc = "write"
    /\ store' = [store EXCEPT ![th[t].uid] = Profile(th[t].arg)]
    /\ th' = [th EXCEPT ![t].pc = "read"]
    /\ UNCHANGED <<swipes, matches, norm_in, norm_out, events, hash_order, index,
                   index_built, index_built_at, now, knn_in, knn_out, last>>

\* update_user_profile: updated_doc = doc_ref.get()
ReadBack(t) ==
    /\ th[t].pc = "read"
    /\ th' = [th EXCEPT ![t].profile_data = store[th[t].uid], ![t].pc = "check"]
    /\ UNCHANGED <<swipes, matches, norm_in, norm_out, events, store, hash_order, index,
                   index_built, index_built_at, now, knn_in, knn_out, last>>

\* "if not self.index_built" of update_user_in_index, "if
\* self._should_rebuild_index()" of the queries
CheckBuilt(t) ==
    /\ th[t].pc = "check"
    /\ th' = [th EXCEPT ![t].pc =
                 IF th[t].op = "update"
                 THEN (IF ~index_built THEN "stream" ELSE "remove")
                 ELSE (IF should_rebuild_index(Self) THEN "stream"
                       ELSE PcAfterRebuild(th[t].op))]
    /\ UNCHANGED <<swipes, matches, norm_in, norm_out, events, store, hash_order, index,
                   index_built, index_built_at, now, knn_in, knn_out, last>>

\* rebuild_index: the loop over users_ref.stream()
StreamUsers(t) ==
    /\ th[t].pc = "stream"
    /\ th' = [th EXCEPT ![t].profiles = Stream(store), ![t].pc = "clear"]
    /\ UNCHANGED <<swipes, matches, norm_in, norm_out, events, store, hash_order, index,
                   index_built, index_built_at, now, knn_in, knn_out, last>>

\* build_index: the four clear() calls
ClearIndex(t) ==
    /\ th[t].pc = "clear"
    /\ index' = Clear(index)
    /\ th' = [th EXCEPT ![t].old = index, ![t].i = 1,
                        ![t].pc = IF Len(th[t].profiles) = 0 THEN "sort" ELSE "add"]
    /\ UNCHANGED <<swipes, matches, norm_in, norm_out, events, store, hash_order,
                   index_built, index_built_at, now, knn_in, knn_out, last>>

\* build_index: one turn of the loop over profiles.items()
AddDocument(t) ==
    /\ th[t].pc = "add"
    /\ index' = AddAll(index, <<th[t].profiles[th[t].i]>>, 1).index
    /\ th' = [th EXCEPT ![t].i = @ + 1,
                        ![t].pc = IF th[t].i = Len(th[t].profiles) THEN "sort" ELSE "add"]
    /\ UNCHANGED <<swipes, matches, norm_in, norm_out, events, store, hash_order,
                   index_built, index_built_at, now, knn_in, knn_out, last>>

\* build_index: the sort of every inverted list
SortIndex(t) ==
    /\ th[t].pc = "sort"
    /\ index' = SortPostings(index, DOMAIN index.inverted_index)
    /\ th' = [th EXCEPT ![t].pc = "flag"]
    /\ UNCHANGED <<swipes, matches, norm_in, norm_out, events, store, hash_order,
                   index_built, index_built_at, now, knn_in, knn_out, last>>

\* rebuild_index: self.index_built = True; self.index_built_at = time.time()
SetBuilt(t) ==
    /\ th[t].pc = "flag"
    /\ index_built' = TRUE
    /\ index_built_at' = now
    /\ th' = [th EXCEPT ![t].profiles = <<>>, ![t].i = 0, ![t].old = EmptyIndex,
                        ![t].pc = PcAfterRebuild(th[t].op)]
    /\ UNCHANGED <<swipes, matches, norm_in, norm_out, events, store, hash_order, index,
                   now, knn_in, knn_out, last>>

\* update_user_in_index: the removal of the old entry
RemoveOld(t) ==
    /\ th[t].pc = "remove"
    /\ index' = RemoveEntry(index, th[t].uid)
    /\ th' = [th EXCEPT ![t].pc = "insert"]
    /\ UNCHANGED <<swipes, matches, norm_in, norm_out, events, store, hash_order,
                   index_built, index_built_at, now, knn_in, knn_out, last>>

\* update_user_in_index: the addition of the new entry
AddNew(t) ==
    /\ th[t].pc = "insert"
    /\ index' = AddEntry(index, th[t].uid, get_profile_vector(th[t].profile_data))
    /\ th' = [th EXCEPT ![t].pc = "invalidate"]
    /\ UNCHANGED <<swipes, matches, norm_in, norm_out, events, store, hash_order,
                   index_built, index_built_at, now, knn_in, knn_out, last>>

\* update_user_in_index: self.invalidate_index()
Invalidate(t) ==
    /\ th[t].pc = "invalidate"
    /\ \E self \in {invalidate_index(Self)} :
           /\ index_built' = self.index_built
           /\ index_built_at' = self.index_built_at
    /\ th' = [th EXCEPT ![t].pc = "done"]
    /\ UNCHANGED <<swipes, matches, norm_in, norm_out, events, store, hash_order, index,
                   now, knn_in, knn_out, last>>

\* find_matches: the read of the query user's profile
GetProfile(t) ==
    /\ th[t].pc = "get"
    /\ \E query_vector \in {get_profile_vector(store[th[t].uid])} :
           th' = [th EXCEPT ![t].query_vector = query_vector,
                            ![t].pc = IF Len(query_vector) = 0 THEN "done" ELSE "knn"]
    /\ UNCHANGED <<swipes, matches, norm_in, norm_out, events, store, hash_order, index,
                   index_built, index_built_at, now, knn_in, knn_out, last>>

\* the index is in the middle of another thread's build_index: it is
\* neither the index that build found nor the one it will leave
Torn(t) ==
    \E r \in Threads \ {t} :
        /\ th[r].pc \in {"add", "sort"}
        /\ index # th[r].old
        /\ index # build_index(EmptyIndex, th[r].profiles).index

\* the call of l2ap_knn that ends a query
RunSearch(t) ==
    /\ th[t].pc = "knn"
    /\ th' = [th EXCEPT
                 ![t].results =
                     IF th[t].op = "find_matches"
                     THEN l2ap_knn(th[t].query_vector, index, NumUsers, Zero, {th[t].uid})
                     ELSE l2ap_knn(normalize_interests(th[t].arg), index, NumUsers, Zero, {}),
                 ![t].knn_ran = TRUE,
                 ![t].knn_built = index_built,
                 ![t].torn = Torn(t),
                 ![t].pc = "done"]
    /\ UNCHANGED <<swipes, matches, norm_in, norm_out, events, store, hash_order, index,
                   index_built, index_built_at, now, knn_in, knn_out, last>>

NextRace ==
    \E t \in Threads :
        \/ WriteStore(t)
        \/ ReadBack(t)
        \/ CheckBuilt(t)
        \/ StreamUsers(t)
        \/ ClearIndex(t)
        \/ AddDocument(t)
        \/ SortIndex(t)
        \/ SetBuilt(t)
        \/ RemoveOld(t)
        \/ AddNew(t)
        \/ Invalidate(t)
        \/ GetProfile(t)
        \/ RunSearch(t)

SpecRace == InitRace /\ [][NextRace]_vars

\* ----------------------------------------------------------------- claims on overlapping calls
\* C5 (as the specification states it): whatever the interleaving of a
\* rebuild_index with a query, the search of the query reads an index that
\* is the one the build found or the one the build leaves, never one in
\* between.
C5_SearchReadsWholeGeneration == \A t \in Threads : ~th[t].torn

\* uid's entries in the index are those of the vector of profile_data
Reflects(idx, uid, profile_data) ==
    \A f \in Features :
        SelectSeq(PostingsOf(idx, f), LAMBDA p : p[1] = uid) =
            PostingsOf(AddEntry(EmptyIndex, uid, get_profile_vector(profile_data)), f)

\* C6 (as the specification states it): once an update of uid has
\* returned, and while the store still holds the profile it wrote, the
\* service is Stale or its index holds uid's new profile (whenever no
\* build_index is in the middle of its work).
C6_InvalidationNotLost ==
    \A t \in Threads :
        (/\ th[t].op = "update"
         /\ th[t].pc = "done"
         /\ store[th[t].uid] = Profile(th[t].arg)
         /\ index_built
         /\ \A r \in Threads : th[r].pc \notin {"add", "sort"})
        => Reflects(index, th[t].uid, store[th[t].uid])

\* ----------------------------------------------------------------- claims on the result list
\* idx without the documents of ids
RECURSIVE WithoutDocs(_, _)
WithoutDocs(idx, ids) ==
    IF ids = {} THEN idx
    ELSE LET d == CHOOSE x \in ids : TRUE
         IN WithoutDocs(RemoveEntry(idx, d), ids \ {d})

\* C13: no excluded document is in the result of l2ap_knn, and the result
\* is the one the same search gives on the index without the excluded
\* documents (an excluded document takes no result slot); find_matches with
\* exclude_self never returns the query user.
C13_ExcludedNeverReturned ==
    knn_out.ran =>
        /\ KnnIds \cap knn_in.exclude = {}
        /\ knn_out.results =
               l2ap_knn(KnnQuery, WithoutDocs(index, knn_in.exclude), knn_in.k,
                        knn_in.t_min, {})
        /\ \A u \in knn_in.exclude :
               \E q \in {find_matches(Self, store, u, knn_in.k, knn_in.t_min, TRUE, FALSE)} :
                   /\ ~q.raised
                   /\ \A i \in 1..Len(q.results) : q.results[i][1] # u

\* a search with one result slot that excludes the document of similarity 1
\* and returns another document
C13_Witness ==
    /\ knn_out.ran
    /\ knn_in.k = 1
    /\ \E u \in knn_in.exclude : u \in index.doc_ids /\ KnnSim(u) = One
    /\ Len(knn_out.results) = 1

\* C14: the list l2ap_knn returns has at most k entries, lists no document
\* twice, and is in non-increasing order of similarity.
C14_AtMostKDistinctSorted ==
    knn_out.ran =>
        /\ Len(knn_out.results) <= knn_in.k
        /\ \A i, j \in 1..Len(knn_out.results) :
               i < j => /\ knn_out.results[i][1] # knn_out.results[j][1]
                        /\ knn_out.results[i][2] >= knn_out.results[j][2]

\* a search with k = 1 over an index with two documents that share a tag
\* with the query
C14_Witness ==
    /\ knn_out.ran
    /\ knn_in.k = 1
    /\ knn_in.exclude = {}
    /\ Cardinality(SharingDocs) = 2
    /\ Len(knn_out.results) = 1

\* the normalized interest set of the query of the direct call
KnnQueryTags == {LowerStrip(knn_in.interests[i]) : i \in 1..Len(knn_in.interests)} \ {0}

\* a direct call with t_min = 0, no exclusions and k at least the number of
\* indexed documents
KnnFullCall ==
    /\ knn_out.ran
    /\ knn_in.t_min = Zero
    /\ knn_in.exclude = {}
    /\ knn_in.k >= Cardinality(index.doc_ids)

\* the similarity sim is c / sqrt(nq * nd)
IsCosineOfSets(sim, c, nq, nd) == sim * nq * nd = Scale * c * c

\* C15: with t_min = 0 and k at least the number of indexed documents, the
\* similarity l2ap_knn reports for an indexed document of interest set D,
\* on a query of interest set Q, is |Q \cap D| / sqrt(|Q| * |D|): every
\* document that shares a tag with the query is listed with that value,
\* 1.0 when Q = D and 2/sqrt(6) for Q = {1, 2} and D = {1, 2, 3}.
C15_CosineOfInterestSets ==
    KnnFullCall =>
        \A d \in index.doc_ids :
            LET Q == KnnQueryTags
                D == StoredTags(d)
                c == Cardinality(Q \cap D)
                listed == {i \in 1..Len(knn_out.results) : knn_out.results[i][1] = d}
            IN /\ c > 0 => listed # {}
               /\ \A i \in listed :
                      /\ IsCosineOfSets(knn_out.results[i][2], c, Cardinality(Q), Cardinality(D))
                      /\ Q = D => knn_out.results[i][2] = One
                      /\ (Q = {1, 2} /\ D = {1, 2, 3}) =>
                             knn_out.results[i][2] = (2 * Scale) \div 3

\* the query {1, 2} against a document {1, 2, 3}, reported with 2/sqrt(6)
C15_Witness ==
    /\ KnnFullCall
    /\ KnnQueryTags = {1, 2}
    /\ \E i \in 1..Len(knn_out.results) :
           /\ StoredTags(knn_out.results[i][1]) = {1, 2, 3}
           /\ knn_out.results[i][2] = (2 * Scale) \div 3

\* ----------------------------------------------------------------- normalize_interests called directly
MaxTagsFirst == 3
MaxTagsSecond == 2

\* the lists of at most n raw tags, in every order and with repetitions
TagLists(n) == UNION {[1..m -> RawTags] : m \in 0..n}

InitNorm ==
    /\ store = [u \in UIDs |-> NoProfile]
    /\ hash_order \in Perms(Features)
    /\ index = EmptyIndex
    /\ index_built = FALSE
    /\ index_built_at = None
    /\ now = 0
    /\ knn_in = NoKnn
    /\ knn_out = NotRun
    /\ last = NoCall
    /\ th = NoThreads
    /\ norm_in \in [first : TagLists(MaxTagsFirst), second : TagLists(MaxTagsSecond)]
    /\ norm_out = NotNormalized
    /\ events = NoEvents
    /\ swipes = NoSwipes
    /\ matches = NoMatches

\* normalize_interests on each of the two lists
Normalize ==
    /\ ~norm_out.ran
    /\ norm_out' = [ran |-> TRUE,
                    first |-> normalize_interests(norm_in.first),
                    second |-> normalize_interests(norm_in.second)]
    /\ UNCHANGED <<swipes, matches, store, hash_order, index, index_built, index_built_at,
                   now, knn_in, knn_out, last, th, norm_in, events>>

NextNorm == Normalize

SpecNorm == InitNorm /\ [][NextNorm]_vars

\* the set of lower-cased, trimmed, non-empty tags of a list
SurvivingTags(interests) == {LowerStrip(interests[i]) : i \in 1..Len(interests)} \ {0}

\* the items of a vector (dict equality takes no notice of the order)
Items(vector) == {vector[i] : i \in 1..Len(vector)}

\* vector has exactly the keys of tags, each once, each with weight 1/sqrt(n)
IsUniformVector(vector, tags) ==
    /\ Len(vector) = Cardinality(tags)
    /\ {vector[i][1] : i \in 1..Len(vector)} = tags
    /\ \A i \in 1..Len(vector) : vector[i][2] * Cardinality(tags) = Scale

\* C16: normalize_interests depends only on the set of lower-cased, trimmed,
\* non-empty tags: two lists with the same set give the same vector, its keys
\* are that set, every weight is 1/sqrt(n) for n unique tags, and a list with
\* no surviving tag gives the empty vector.
C16_FunctionOfSurvivingTags ==
    norm_out.ran =>
        /\ SurvivingTags(norm_in.first) = SurvivingTags(norm_in.second) =>
               Items(norm_out.first) = Items(norm_out.second)
        /\ IsUniformVector(norm_out.first, SurvivingTags(norm_in.first))
        /\ IsUniformVector(norm_out.second, SurvivingTags(norm_in.second))
        /\ SurvivingTags(norm_in.first) = {} => norm_out.first = <<>>

\* two different lists with the same two surviving tags, the first with a
\* blank, a second casing and the tags in the other order
C16_Witness ==
    /\ norm_out.ran
    /\ norm_in.first = <<NumFeatures + 2, 0, 1>>
    /\ norm_in.second = <<1, 2>>
    /\ Len(norm_out.first) = 2
    /\ Items(norm_out.first) = Items(norm_out.second)

\* ----------------------------------------------------------------- the service as time passes
\* the readings of time.time() the calls are made at: an index built at one
\* of them is IndexTtlSeconds or IndexTtlSeconds + 1 old at a later one
TimePoints == {0, IndexTtlSeconds, IndexTtlSeconds + 1, 2 * IndexTtlSeconds + 1}

InitTtl ==
    /\ store \in [UIDs -> StoredProfiles]
    /\ hash_order = ListOf(Features)
    /\ index = EmptyIndex
    /\ index_built = FALSE
    /\ index_built_at = None
    /\ now = 0
    /\ knn_in = NoKnn
    /\ knn_out = NotRun
    /\ last = NoCall
    /\ th = NoThreads
    /\ norm_in = NoNorm
    /\ norm_out = NotNormalized
    /\ events = NoEvents
    /\ swipes = NoSwipes
    /\ matches = NoMatches

\* time passes between two calls
Tick ==
    /\ \E t \in TimePoints : t > now /\ now' = t
    /\ UNCHANGED <<swipes, matches, store, hash_order, index, index_built, index_built_at,
                   knn_in, knn_out, last, th, norm_in, norm_out, events>>

NextTtl ==
    \/ Tick
    \/ ExternalWrite
    \/ RebuildIndex
    \/ FindMatches
    \/ FindMatchesByInterests

SpecTtl == InitTtl /\ [][NextTtl]_vars

\* the step is a query of the service
QueryStep ==
    /\ now' = now
    /\ last'.op \in {"find_matches", "find_matches_by_interests"}

\* C17: a query issued while index_built is true and the index is at most
\* index_ttl_seconds old does not rebuild and leaves the index and its
\* build timestamp as they are; a query issued when the index is more than
\* index_ttl_seconds old runs rebuild_index before anything else: when the
\* rebuild returns the index is the one of the store, the timestamp is now
\* and the search, if one runs, finds the service built; when it raises, the
\* query raises.
C17_StrictTtlBound ==
    [][(QueryStep /\ index_built) =>
          IF now - index_built_at <= IndexTtlSeconds
          THEN /\ ~last'.rebuilt
               /\ ~last'.raised
               /\ index' = index
               /\ index_built'
               /\ index_built_at' = index_built_at
          ELSE /\ last'.rebuilt \/ last'.raised
               /\ last'.rebuilt =>
                      /\ index' = IndexOfStore
                      /\ index_built'
                      /\ index_built_at' = now
               /\ last'.raised => ~last'.knn_ran
               /\ last'.knn_ran => last'.knn_built]_vars

\* a query that found the service built, more than index_ttl_seconds after
\* the build, and rebuilt the index before its search
C17_Witness ==
    /\ last.op = "find_matches"
    /\ last.pre_built
    /\ last.rebuilt
    /\ last.knn_ran
    /\ index_built_at = now
    /\ now > IndexTtlSeconds

\* ----------------------------------------------------------------- claims on the failures of a query
\* C11: a failure of the document store is never masked: when the store
\* raises while find_matches looks up the profile of the query user, the
\* call raises and does not return the empty list.
C11_StoreFailureRaises ==
    (last.op = "find_matches" /\ last.lookup = "failed") =>
        (last.raised /\ ~last.returned_empty)

\* uid has no stored profile, or a profile whose interests list is missing,
\* empty or made of blank strings only
HasNoInterests(uid) ==
    \/ store[uid].kind = "none"
    \/ store[uid].kind = "ok" /\ StoredTags(uid) = {}

NumEvents == 1
NumAttendees == 3
MaxCapacity == 2
NumEventThreads == 2

EventIds == 1..NumEvents
AttendeeUids == 1..NumAttendees
EventThreads == 1..NumEventThreads

\* a document of "hiking_events": not created yet, stored, or deleted
NotCreated == [kind |-> "none"]
Deleted == [kind |-> "deleted"]
HikingEvent(max_attendees) ==
    [kind |-> "event", attendees |-> <<>>, max_attendees |-> max_attendees]

\* exceptions: their class and the pieces of their message
NoException == [type |-> "none", message |-> <<>>]
ValueError(message) == [type |-> "ValueError", message |-> <<message>>]
NotFound == [type |-> "NotFound", message |-> <<"No document to update">>]
RuntimeError(prefix, e) == [type |-> "RuntimeError", message |-> <<prefix>> \o e.message]

\* current_attendees.remove(user_uid): the first occurrence goes
RECURSIVE Remove(_, _)
Remove(list, x) ==
    IF Len(list) = 0 THEN <<>>
    ELSE IF Head(list) = x THEN Tail(list)
    ELSE <<Head(list)>> \o Remove(Tail(list), x)

\* what the try block of a call has reached before event_ref.update
Checked(e, current_attendees) == [exception |-> e, current_attendees |-> current_attendees]

\* add_attendee_to_event with no check of the number of attendees
add_attendee_checks_without_capacity(event_data, user_uid) ==
    IF event_data.kind # "event"
    THEN Checked(ValueError("Event event_id not found"), <<>>)
    ELSE IF user_uid \in Range(event_data.attendees)
    THEN Checked(ValueError("User is already attending this event"), event_data.attendees)
    ELSE Checked(NoException, Append(event_data.attendees, user_uid))

\* add_attendee_to_event, lines 194-214: the document read, the checks and
\* the append to the list read
add_attendee_checks(event_data, user_uid) ==
    IF event_data.kind # "event"
    THEN Checked(ValueError("Event event_id not found"), <<>>)
    ELSE IF user_uid \in Range(event_data.attendees)
    THEN Checked(ValueError("User is already attending this event"), event_data.attendees)
    ELSE IF Len(event_data.attendees) >= event_data.max_attendees
    THEN Checked(ValueError("Event is full (max max_attendees attendees)"),
                 event_data.attendees)
    ELSE Checked(NoException, Append(event_data.attendees, user_uid))

\* remove_attendee_from_event, lines 250-265
remove_attendee_checks(event_data, user_uid) ==
    IF event_data.kind # "event"
    THEN Checked(ValueError("Event event_id not found"), <<>>)
    ELSE IF user_uid \notin Range(event_data.attendees)
    THEN Checked(ValueError("User is not attending this event"), event_data.attendees)
    ELSE Checked(NoException, Remove(event_data.attendees, user_uid))

\* the except clause of each function: every exception of the try block
\* leaves as a RuntimeError (lines 232-234, 283-285)
ExceptPrefix(op) ==
    IF op = "add" THEN "Failed to add attendee: " ELSE "Failed to remove attendee: "

Idle == [pc |-> "idle"]
Updating(op, event_id, user_uid, current_attendees, read) ==
    [pc |-> "update", op |-> op, event_id |-> event_id, user_uid |-> user_uid,
     current_attendees |-> current_attendees, read |-> read]

\* how the call that ended last left: the exception, whether event_ref.update
\* wrote the list, and what the call read (the document existed, the user
\* was in the list, the list was full)
NoEventCall ==
    [op |-> "none", exception |-> NoException, wrote |-> FALSE, exists |-> FALSE,
     saw_attending |-> FALSE, saw_full |-> FALSE]

Read(op, event_data, user_uid, e, wrote) ==
    [op |-> op, exception |-> e, wrote |-> wrote,
     exists |-> event_data.kind = "event",
     saw_attending |-> event_data.kind = "event" /\ user_uid \in Range(event_data.attendees),
     saw_full |-> event_data.kind = "event"
                  /\ Len(event_data.attendees) >= event_data.max_attendees]

InitEvents ==
    /\ store = [u \in UIDs |-> NoProfile]
    /\ hash_order = ListOf(Features)
    /\ index = EmptyIndex
    /\ index_built = FALSE
    /\ index_built_at = None
    /\ now = 0
    /\ knn_in = NoKnn
    /\ knn_out = NotRun
    /\ norm_in = NoNorm
    /\ norm_out = NotNormalized
    /\ last = NoEventCall
    /\ th = [t \in EventThreads |-> Idle]
    /\ events = [e \in EventIds |-> NotCreated]
    /\ swipes = NoSwipes
    /\ matches = NoMatches

\* create_hiking_event: a new document, nobody attending
CreateEvent ==
    /\ \E event_id \in EventIds, max_attendees \in 1..MaxCapacity :
           /\ events[event_id] = NotCreated
           /\ \A e \in EventIds : e < event_id => events[e] # NotCreated
           /\ events' = [events EXCEPT ![event_id] = HikingEvent(max_attendees)]
    /\ UNCHANGED <<swipes, matches, store, hash_order, index, index_built, index_built_at,
                   now, knn_in, knn_out, last, th, norm_in, norm_out>>

\* delete_hiking_event_by_id
DeleteEvent ==
    /\ \E event_id \in EventIds :
           /\ events[event_id].kind = "event"
           /\ events' = [events EXCEPT ![event_id] = Deleted]
    /\ UNCHANGED <<swipes, matches, store, hash_order, index, index_built, index_built_at,
                   now, knn_in, knn_out, last, th, norm_in, norm_out>>

\* the first part of a call, up to event_ref.update: the call either leaves
\* with the exception of the except clause or goes on to write
GetAndCheck(t, op, event_id, user_uid, c) ==
    IF c.exception.type # "none"
    THEN /\ last' = Read(op, events[event_id], user_uid,
                         RuntimeError(ExceptPrefix(op), c.exception), FALSE)
         /\ th' = th
    ELSE /\ th' = [th EXCEPT ![t] =
                       Updating(op, event_id, user_uid, c.current_attendees,
                                Read(op, events[event_id], user_uid, NoException, FALSE))]
         /\ last' = last

AddAttendeeGet(t) ==
    /\ th[t] = Idle
    /\ \E event_id \in EventIds, user_uid \in AttendeeUids :
           GetAndCheck(t, "add", event_id, user_uid,
                       add_attendee_checks(events[event_id], user_uid))
    /\ UNCHANGED <<swipes, matches, store, hash_order, index, index_built, index_built_at,
                   now, knn_in, knn_out, norm_in, norm_out, events>>

RemoveAttendeeGet(t) ==
    /\ th[t] = Idle
    /\ \E event_id \in EventIds, user_uid \in AttendeeUids :
           GetAndCheck(t, "remove", event_id, user_uid,
                       remove_attendee_checks(events[event_id], user_uid))
    /\ UNCHANGED <<swipes, matches, store, hash_order, index, index_built, index_built_at,
                   now, knn_in, knn_out, norm_in, norm_out, events>>

\* event_ref.update({"attendees": current_attendees, ...}): the whole list
\* the call holds is written; the update of a document deleted in between
\* raises, and the except clause turns that into a RuntimeError too
AttendeeUpdate(t) ==
    /\ th[t].pc = "update"
    /\ IF events[th[t].event_id].kind = "event"
       THEN /\ events' = [events EXCEPT
                             ![th[t].event_id].attendees = th[t].current_attendees]
            /\ last' = [th[t].read EXCEPT !.wrote = TRUE]
       ELSE /\ events' = events
            /\ last' = [th[t].read EXCEPT
                           !.exception = RuntimeError(ExceptPrefix(th[t].op), NotFound)]
    /\ th' = [th EXCEPT ![t] = Idle]
    /\ UNCHANGED <<swipes, matches, store, hash_order, index, index_built, index_built_at,
                   now, knn_in, knn_out, norm_in, norm_out>>

NextEvents ==
    \/ CreateEvent
    \/ DeleteEvent
    \/ \E t \in EventThreads :
        \/ AddAttendeeGet(t)
        \/ RemoveAttendeeGet(t)
        \/ AttendeeUpdate(t)

SpecEvents == InitEvents /\ [][NextEvents]_vars

\* C18: the stored attendee list of every event has at most max_attendees
\* entries and holds no uid twice; an add that finds the uid in the list, or
\* the list full, is rejected with an exception and writes nothing.
C18_AttendeesBoundedAndDistinct ==
    /\ \A e \in EventIds :
           events[e].kind = "event" =>
               /\ Len(events[e].attendees) <= events[e].max_attendees
               /\ \A i, j \in 1..Len(events[e].attendees) :
                      i # j => events[e].attendees[i] # events[e].attendees[j]
    /\ (last.op = "add" /\ (last.saw_attending \/ last.saw_full)) =>
           (last.exception.type # "none" /\ ~last.wrote)

\* an add turned away by a full event, whose list is still full
C18_Witness ==
    /\ last.op = "add"
    /\ last.saw_full
    /\ ~last.saw_attending
    /\ ~last.wrote
    /\ \E e \in EventIds :
           /\ events[e].kind = "event"
           /\ Len(events[e].attendees) = events[e].max_attendees

\* the call that ended last was turned away by one of the checks: the event
\* not found, the user already attending, the event full, the user not
\* attending
Rejected ==
    /\ last.op \in {"add", "remove"}
    /\ \/ ~last.exists
       \/ last.op = "add" /\ (last.saw_attending \/ last.saw_full)
       \/ last.op = "remove" /\ ~last.saw_attending

\* C19: every rejection reaches the caller as a ValueError with the message
\* of the check alone, and nothing is written.
C19_RejectionIsValueError ==
    Rejected =>
        /\ last.exception.type = "ValueError"
        /\ Len(last.exception.message) = 1
        /\ ~last.wrote

\* ----------------------------------------------------------------- the order of the posting lists
\* a users collection with one more document than the calls write: its
\* last document, in the order of the stream, is never updated
MoreUIDs == 1..(NumUsers + 1)

InitSorted ==
    /\ store \in [MoreUIDs -> {NoProfile, BadProfile}]
    /\ \A uid \in UIDs : store[uid] = NoProfile
    /\ hash_order = ListOf(Features)
    /\ index = EmptyIndex
    /\ index_built = FALSE
    /\ index_built_at = None
    /\ now = 0
    /\ knn_in = NoKnn
    /\ knn_out = NotRun
    /\ last = NoCall
    /\ th = NoThreads
    /\ norm_in = NoNorm
    /\ norm_out = NotNormalized
    /\ events = NoEvents
    /\ swipes = NoSwipes
    /\ matches = NoMatches

NextSorted ==
    \/ ExternalWrite
    \/ UpdateProfile
    \/ RebuildIndex

SpecSorted == InitSorted /\ [][NextSorted]_vars

\* the weights of list never go up
IsSortedByWeight(list) == \A i, j \in 1..Len(list) : i < j => list[i][2] >= list[j][2]

\* C20: after any sequence of rebuild_index and update_user_in_index calls,
\* one at a time, every posting list of the inverted index is in
\* non-increasing order of weight.
C20_PostingsSorted ==
    \A f \in DOMAIN index.inverted_index : IsSortedByWeight(index.inverted_index[f])

\* ----------------------------------------------------------------- the index under direct calls
\* no posting list grows beyond this length (add_document called again for
\* a document already indexed appends its postings again)
MaxPostings == NumUsers + 1

InitIndex ==
    /\ store \in [UIDs -> {Profile(ListOf(1..NumStoredTags)), BadProfile}]
    /\ hash_order = ListOf(Features)
    /\ index = EmptyIndex
    /\ index_built = FALSE
    /\ index_built_at = None
    /\ now = 0
    /\ knn_in = NoKnn
    /\ knn_out = NotRun
    /\ last = NoCall
    /\ th = NoThreads
    /\ norm_in = NoNorm
    /\ norm_out = NotNormalized
    /\ events = NoEvents
    /\ swipes = NoSwipes
    /\ matches = NoMatches

\* L2APIndex.build_index called with a dict of profiles; an exception leaves
\* the index as far as the loop got
BuildIndexCall ==
    /\ \E profiles \in [UIDs -> StoredProfiles] :
           \E built \in {build_index(index, Stream(profiles))} :
               /\ index' = built.index
               /\ last' = [NoCall EXCEPT !.op = "build_index", !.pre_built = index_built,
                                         !.raised = built.raised]
    /\ UNCHANGED <<swipes, matches, store, hash_order, index_built, index_built_at, now,
                   knn_in, knn_out, th, norm_in, norm_out, events>>

\* L2APIndex.add_document called with the vector of a list of interests
AddDocumentCall ==
    /\ \E doc_id \in UIDs, interests \in StoredLists \cup {<<0>>} :
           \E vector \in {normalize_interests(interests)} :
               /\ \A i \in 1..Len(vector) :
                      /\ Len(PostingsOf(index, vector[i][1])) < MaxPostings
                      /\ vector[i][1] \in DOMAIN index.feature_freq =>
                             index.feature_freq[vector[i][1]] < MaxPostings
               /\ index' = add_document(index, doc_id, vector)
               /\ last' = [NoCall EXCEPT !.op = "add_document", !.pre_built = index_built]
    /\ UNCHANGED <<swipes, matches, store, hash_order, index_built, index_built_at, now,
                   knn_in, knn_out, th, norm_in, norm_out, events>>

\* update_user_in_index called with a profile
UpdateUserInIndex ==
    /\ \E uid \in UIDs, profile_data \in StoredProfiles \ {NoProfile} :
           \E o \in {update_user_in_index(Self, uid, profile_data, store, FALSE)} :
               Ended("update", o, FALSE, FALSE, "none", FALSE)
    /\ UNCHANGED <<swipes, matches, store, hash_order, now, knn_in, knn_out, th, norm_in,
                   norm_out, events>>

NextIndex ==
    \/ BuildIndexCall
    \/ AddDocumentCall
    \/ UpdateUserInIndex
    \/ RebuildIndex

SpecIndex == InitIndex /\ [][NextIndex]_vars

\* the documents with at least one posting in idx
PostingIds(idx) ==
    UNION {{idx.inverted_index[f][i][1] : i \in 1..Len(idx.inverted_index[f])} :
              f \in DOMAIN idx.inverted_index}

\* C21: after any sequence of build_index, add_document and
\* update_user_in_index calls, the documents with at least one posting, the
\* keys of doc_metadata and doc_ids are the same set.
C21_PostingsMetadataDocIdsAgree ==
    /\ PostingIds(index) = index.doc_ids
    /\ DOMAIN index.doc_metadata = index.doc_ids

\* an incremental update on a built index that took a document out and left
\* another one in
C21_Witness ==
    /\ last.op = "update"
    /\ last.pre_built
    /\ ~last.rebuilt
    /\ Cardinality(index.doc_ids) = 1
    /\ PostingIds(index) = index.doc_ids

\* the normalized interest set of a well-formed profile
ProfileTags(profile_data) ==
    {LowerStrip(profile_data.interests[i]) : i \in 1..Len(profile_data.interests)} \ {0}

\* the postings of document d in the list of feature f, in their order
PostingsOfDoc(idx, f, d) == SelectSeq(PostingsOf(idx, f), LAMBDA posting : posting[1] = d)

\* how many times posting occurs in list
Occurrences(list, posting) == Cardinality({i \in 1..Len(list) : list[i] = posting})

\* the two lists hold the same postings, each as many times (the sort of a
\* list may move postings of equal weight)
SamePostings(a, b) ==
    /\ Len(a) = Len(b)
    /\ \A i \in 1..Len(a) : Occurrences(a, a[i]) = Occurrences(b, a[i])

\* the postings and the bound of document d are the same in old and new
SameDocument(old, new, d) ==
    /\ \A f \in Features :
           SamePostings(PostingsOfDoc(new, f, d), PostingsOfDoc(old, f, d))
    /\ d \in DOMAIN new.doc_metadata <=> d \in DOMAIN old.doc_metadata
    /\ d \in DOMAIN old.doc_metadata => new.doc_metadata[d] = old.doc_metadata[d]
    /\ d \in new.doc_ids <=> d \in old.doc_ids

\* new holds uid with exactly the vector of tags: one posting of weight
\* 1/sqrt(n) in the list of each tag, none elsewhere, a bound when there is a
\* tag
HoldsExactly(new, uid, tags) ==
    /\ \A f \in Features :
           /\ Len(PostingsOfDoc(new, f, uid)) = (IF f \in tags THEN 1 ELSE 0)
           /\ f \in tags => PostingsOfDoc(new, f, uid)[1][2] * Cardinality(tags) = Scale
    /\ uid \in DOMAIN new.doc_metadata <=> tags # {}
    /\ uid \in new.doc_ids <=> tags # {}

\* C22: the index mutation of update_user_in_index(uid, profile) on a Fresh
\* service leaves uid with exactly one posting for each feature of its new
\* vector and none for any other feature (no posting and no bound when the
\* new interests are empty), and leaves the postings and bounds of every
\* other document as they were.
C22_UpdateReplacesOneDocument ==
    index_built =>
        \A uid \in UIDs, profile_data \in StoredProfiles \ {NoProfile, BadProfile} :
            \E o \in {update_user_in_index(Self, uid, profile_data, store, FALSE)} :
                /\ ~o.raised
                /\ HoldsExactly(o.self.index, uid, ProfileTags(profile_data))
                /\ \A d \in UIDs \ {uid} : SameDocument(index, o.self.index, d)

\* an incremental update on a built index that holds two documents when it
\* ends
C22_Witness ==
    /\ last.op = "update"
    /\ last.pre_built
    /\ ~last.rebuilt
    /\ ~last.raised
    /\ Cardinality(index.doc_ids) = 2

\* ----------------------------------------------------------------- theta
\* The values theta holds in the verification phase of one call, in order:
\* its value before candidate n and after every later candidate (lines
\* 306-338); a candidate the loop skips leaves theta as it is.
RECURSIVE VerificationThetas(_, _, _, _, _, _)
VerificationThetas(st, acc, idx, k, exclude_doc_ids, n) ==
    IF n > Len(acc.keys) THEN <<st.theta>>
    ELSE LET doc_id == acc.keys[n]
             dot_product == acc.val[doc_id]
             skipped == \/ doc_id \in exclude_doc_ids
                        \/ dot_product = Zero
                        \/ doc_id \notin DOMAIN idx.doc_metadata
                        \/ SumLt(dot_product, idx.doc_metadata[doc_id][1], st.theta)
             next == IF skipped THEN st ELSE HeapUpdate(st, dot_product, doc_id, k)
         IN <<st.theta>> \o VerificationThetas(next, acc, idx, k, exclude_doc_ids, n + 1)

\* The values of theta during l2ap_knn(query_vector, idx, k, t_min,
\* exclude_doc_ids): t_min at line 238, unchanged through candidate
\* generation, then the values of the verification phase.
l2ap_knn_thetas(query_vector, idx, k, t_min, exclude_doc_ids) ==
    IF Len(query_vector) = 0 THEN <<>>
    ELSE LET query_features == get_ordered_features(query_vector)
             total_norm_sq == SumSq(query_vector, Len(query_vector))
             query_suffix_norms ==
                 [i \in 1..Len(query_features) |->
                     Sqrt(SuffixSq(query_features, total_norm_sq, i))]
             accumulator ==
                 CandidateGeneration(EmptyAcc, query_features, query_suffix_norms, idx,
                                     t_min, exclude_doc_ids, 1)
         IN VerificationThetas([heap |-> <<>>, theta |-> t_min], accumulator, idx, k,
                               exclude_doc_ids, 1)

KnnThetas ==
    l2ap_knn_thetas(KnnQuery, index, knn_in.k, knn_in.t_min, knn_in.exclude)

NeverDecreases(thetas, t_min) ==
    /\ \A i \in 1..Len(thetas) : thetas[i] >= t_min
    /\ \A i \in 1..(Len(thetas) - 1) : thetas[i] <= thetas[i + 1]

\* C23: during one l2ap_knn call theta starts at t_min, stays >= t_min, and
\* every assignment sets it to a value >= its previous value.
C23_ThetaNeverDecreases ==
    knn_out.ran =>
        \E thetas \in {KnnThetas} :
            /\ Len(thetas) > 0 => thetas[1] = knn_in.t_min
            /\ NeverDecreases(thetas, knn_in.t_min)

\* ----------------------------------------------------------------- heap update
\* The heap updates of the verification phase of one call, in order: for
\* every candidate that reaches line 332, the heap and theta before the
\* update, the candidate's similarity and the heap after it.
RECURSIVE VerificationUpdates(_, _, _, _, _, _)
VerificationUpdates(st, acc, idx, k, exclude_doc_ids, n) ==
    IF n > Len(acc.keys) THEN <<>>
    ELSE LET doc_id == acc.keys[n]
             dot_product == acc.val[doc_id]
             skipped == \/ doc_id \in exclude_doc_ids
                        \/ dot_product = Zero
                        \/ doc_id \notin DOMAIN idx.doc_metadata
                        \/ SumLt(dot_product, idx.doc_metadata[doc_id][1], st.theta)
             next == IF skipped THEN st ELSE HeapUpdate(st, dot_product, doc_id, k)
             rest == VerificationUpdates(next, acc, idx, k, exclude_doc_ids, n + 1)
         IN IF skipped THEN rest
            ELSE <<[heap |-> st.heap, theta |-> st.theta, similarity |-> dot_product,
                    doc_id |-> doc_id, after |-> next.heap]>> \o rest

\* The heap updates of l2ap_knn(query_vector, idx, k, t_min, exclude_doc_ids)
l2ap_knn_updates(query_vector, idx, k, t_min, exclude_doc_ids) ==
    IF Len(query_vector) = 0 THEN <<>>
    ELSE LET query_features == get_ordered_features(query_vector)
             total_norm_sq == SumSq(query_vector, Len(query_vector))
             query_suffix_norms ==
                 [i \in 1..Len(query_features) |->
                     Sqrt(SuffixSq(query_features, total_norm_sq, i))]
             accumulator ==
                 CandidateGeneration(EmptyAcc, query_features, query_suffix_norms, idx,
                                     t_min, exclude_doc_ids, 1)
         IN VerificationUpdates([heap |-> <<>>, theta |-> t_min], accumulator, idx, k,
                                exclude_doc_ids, 1)

KnnUpdates ==
    l2ap_knn_updates(KnnQuery, index, knn_in.k, knn_in.t_min, knn_in.exclude)

\* C24: once the heap holds k entries, a candidate is inserted (it replaces
\* the heap minimum) only when its similarity is strictly greater than the
\* current theta; a candidate of similarity equal to theta is not inserted.
C24_FullHeapNeedsStrictlyMoreThanTheta ==
    knn_out.ran =>
        \E updates \in {KnnUpdates} :
            \A i \in 1..Len(updates) :
                (Len(updates[i].heap) = knn_in.k /\ updates[i].after # updates[i].heap)
                => updates[i].similarity > updates[i].theta

\* ----------------------------------------------------------------- a rebuild that fails
\* C25: when rebuild_index raises, it leaves the index and the
\* index_built/index_built_at state exactly as they were before the call, or
\* it leaves the service not built; it never leaves a built service with a
\* cleared or partly populated index.
C25_FailedRebuildKeepsOrInvalidates ==
    [][(last'.op = "rebuild" /\ last'.raised)
       => \/ /\ index' = index
             /\ index_built' = index_built
             /\ index_built_at' = index_built_at
          \/ ~index_built']_vars

\* ----------------------------------------------------------------- a search that overlaps updates
\* Each thread is in the middle of one call on a built service, past the
\* check of index_built that starts the call: an update_user_in_index(uid,
\* profile_data) about to remove uid's old entry, or an l2ap_knn search (the
\* search of find_matches_by_interests, k the number of users, t_min 0)
\* about to start its candidate generation.  The search reads one posting
\* list of the index per step and doc_metadata in its last step; the removal
\* and the addition of an update are one step each.
SearchCalls ==
    {[op |-> "update", uid |-> u, arg |-> l] : u \in UIDs, l \in RaceLists}
    \cup {[op |-> "search", uid |-> 0, arg |-> l] : l \in RaceLists \ {<<>>}}

SearchThread(call) ==
    [op |-> call.op, uid |-> call.uid, arg |-> call.arg,
     pc |-> IF call.op = "update" THEN "remove" ELSE "scan",
     profile_data |-> IF call.op = "update" THEN Profile(call.arg) ELSE NoProfile,
     query_features |-> IF call.op = "search"
                        THEN get_ordered_features(normalize_interests(call.arg))
                        ELSE <<>>,
     i |-> 1, accumulator |-> EmptyAcc, results |-> <<>>]

InitSearch ==
    /\ store \in [UIDs -> RaceProfiles]
    /\ hash_order = ListOf(Features)
    /\ index = build_index(EmptyIndex, Stream(store)).index
    /\ index_built = TRUE
    /\ index_built_at = 0
    /\ now = 0
    /\ norm_in = NoNorm
    /\ norm_out = NotNormalized
    /\ events = NoEvents
    /\ swipes = NoSwipes
    /\ matches = NoMatches
    /\ knn_in = NoKnn
    /\ knn_out = NotRun
    /\ last = NoCall
    /\ th \in [Threads -> {SearchThread(call) : call \in SearchCalls}]

\* the suffix norms of the query of thread t (lines 256-261)
QuerySuffixNorms(query_features) ==
    [i \in 1..Len(query_features) |->
        Sqrt(SuffixSq(query_features, SumSq(query_features, Len(query_features)), i))]

\* l2ap_knn: one turn of the loop over the query features (lines 265-297),
\* over the posting list as the index holds it at this instant
ScanFeature(t) ==
    /\ th[t].pc = "scan"
    /\ th' = [th EXCEPT
                 ![t].accumulator =
                     CandidateGeneration(th[t].accumulator,
                                         SubSeq(th[t].query_features, 1, th[t].i),
                                         QuerySuffixNorms(th[t].query_features), index, Zero,
                                         {}, th[t].i),
                 ![t].i = @ + 1,
                 ![t].pc = IF th[t].i = Len(th[t].query_features) THEN "verify" ELSE "scan"]
    /\ UNCHANGED <<swipes, matches, norm_in, norm_out, events, store, hash_order, index,
                   index_built, index_built_at, now, knn_in, knn_out, last>>

\* l2ap_knn: the verification phase and the sorted result (lines 306-343)
VerifyCandidates(t) ==
    /\ th[t].pc = "verify"
    /\ \E final \in {Verification([heap |-> <<>>, theta |-> Zero], th[t].accumulator, index,
                                  NumUsers, {}, 1)} :
           th' = [th EXCEPT
                     ![t].results = SortDesc([i \in 1..Len(final.heap) |->
                                                 <<final.heap[i][2], final.heap[i][1]>>]),
                     ![t].pc = "done"]
    /\ UNCHANGED <<swipes, matches, norm_in, norm_out, events, store, hash_order, index,
                   index_built, index_built_at, now, knn_in, knn_out, last>>

NextSearch ==
    \E t \in Threads :
        \/ RemoveOld(t)
        \/ AddNew(t)
        \/ Invalidate(t)
        \/ ScanFeature(t)
        \/ VerifyCandidates(t)

SpecSearch == InitSearch /\ [][NextSearch]_vars

\* the profiles of uid a search that overlaps the calls of th can find: the
\* one the index was built from and the one of every update of uid
ProfilesOf(uid) ==
    {store[uid]} \cup {th[r].profile_data : r \in {x \in Threads : th[x].op = "update"
                                                                  /\ th[x].uid = uid}}

\* C26: the similarity a search reports for uid is the exact similarity of
\* the query with uid's complete old vector or with its complete new vector
\* (or uid is not reported), whatever the interleaving with updates of uid.
C26_NoHalfUpdatedDocument ==
    \A t \in Threads :
        (th[t].op = "search" /\ th[t].pc = "done") =>
            \A n \in 1..Len(th[t].results) :
                \E p \in ProfilesOf(th[t].results[n][1]) :
                    th[t].results[n][2] =
                        ExactSim(normalize_interests(th[t].arg), get_profile_vector(p))

\* ----------------------------------------------------------------- queries with k <= 0
\* l2ap_knn with k <= 0: the heap stays empty, "len(heap) < k" is false for
\* the first candidate that reaches the heap update and heap[0] raises
\* IndexError (line 336); theta is t_min until then.  With no such candidate
\* the call returns [].
l2ap_knn_raises(query_vector, idx, k, t_min, exclude_doc_ids) ==
    /\ k <= 0
    /\ Len(query_vector) > 0
    /\ \E updates \in {l2ap_knn_updates(query_vector, idx, 1, t_min, exclude_doc_ids)} :
           Len(updates) > 0

\* the search that ends a query (lines 490-497, 525-529) when k <= 0; caught
\* says whether the call catches the exception of the search (lines 499-501)
SearchNonPositiveK(o, query_vector, k, t_min, exclude_set, caught) ==
    IF Len(query_vector) = 0
    THEN QueryOutcome(o, <<>>, FALSE, FALSE, IF caught THEN "empty" ELSE "none")
    ELSE QueryOutcome([o EXCEPT !.raised =
                          ~caught /\ l2ap_knn_raises(query_vector, o.self.index, k, t_min,
                                                     exclude_set)],
                      <<>>, TRUE, o.self.index_built, IF caught THEN "found" ELSE "none")

\* find_matches after its rebuild (lines 479-501) when k <= 0
LookupNonPositiveK(o, profile_data, query_uid, k, t_min, db_down) ==
    IF o.raised THEN QueryOutcome(o, <<>>, FALSE, FALSE, "none")
    ELSE IF db_down
    THEN QueryOutcome([o EXCEPT !.read_store = TRUE], <<>>, FALSE, FALSE, "failed")
    ELSE IF profile_data.kind = "none"
    THEN QueryOutcome([o EXCEPT !.read_store = TRUE], <<>>, FALSE, FALSE, "missing")
    ELSE IF VectorRaises(profile_data)
    THEN QueryOutcome([o EXCEPT !.read_store = TRUE], <<>>, FALSE, FALSE, "malformed")
    ELSE SearchNonPositiveK([o EXCEPT !.read_store = TRUE],
                            get_profile_vector(profile_data), k, t_min, {query_uid}, TRUE)

\* find_matches called with k <= 0 and exclude_self (lines 476-501)
find_matches_non_positive_k(self, db, query_uid, k, t_min, db_down) ==
    LookupNonPositiveK(EnsureBuilt(self, should_rebuild_index(self), db, db_down),
                       db[query_uid], query_uid, k, t_min, db_down)

\* find_matches_by_interests after its rebuild (lines 524-529) when k <= 0
SearchByInterestsNonPositiveK(o, interests, k, t_min) ==
    IF o.raised THEN QueryOutcome(o, <<>>, FALSE, FALSE, "none")
    ELSE SearchNonPositiveK(o, normalize_interests(interests), k, t_min, {}, FALSE)

\* find_matches_by_interests called with k <= 0 (lines 521-529)
find_matches_by_interests_non_positive_k(self, db, interests, k, t_min, db_down) ==
    SearchByInterestsNonPositiveK(
        EnsureBuilt(self, should_rebuild_index(self), db, db_down), interests, k, t_min)

NonPositiveKs == {-1, 0}

FindMatchesNonPositiveK ==
    \E query_uid \in UIDs, k \in NonPositiveKs, db_down \in BOOLEAN :
        /\ \E q \in {find_matches_non_positive_k(Self, store, query_uid, k, Zero, db_down)} :
               Ended("find_matches", q, q.knn_ran, q.knn_built, q.lookup,
                     ~q.raised /\ q.results = <<>>)
        /\ knn_in' = [NoKnn EXCEPT !.k = k]
        /\ UNCHANGED <<swipes, matches, norm_in, norm_out, events, store, hash_order, now,
                       knn_out, th>>

FindMatchesByInterestsNonPositiveK ==
    \E interests \in QueryLists, k \in NonPositiveKs, db_down \in BOOLEAN :
        /\ \E q \in {find_matches_by_interests_non_positive_k(Self, store, interests, k,
                                                              Zero, db_down)} :
               Ended("find_matches_by_interests", q, q.knn_ran, q.knn_built, q.lookup,
                     ~q.raised /\ q.results = <<>>)
        /\ knn_in' = [NoKnn EXCEPT !.k = k, !.interests = interests]
        /\ UNCHANGED <<swipes, matches, norm_in, norm_out, events, store, hash_order, now,
                       knn_out, th>>

NextNonPositiveK ==
    \/ ExternalWrite
    \/ RebuildIndex
    \/ FindMatchesNonPositiveK
    \/ FindMatchesByInterestsNonPositiveK

SpecNonPositiveK == Init /\ [][NextNonPositiveK]_vars

\* C27: a find_matches or find_matches_by_interests called with k <= 0 runs
\* no rebuild and leaves the index, index_built and index_built_at as they
\* were, whatever the state of the service.
C27_NonPositiveKTouchesNothing ==
    [][(last'.op \in {"find_matches", "find_matches_by_interests"} /\ knn_in'.k <= 0)
       => /\ ~last'.rebuilt
          /\ index' = index
          /\ index_built' = index_built
          /\ index_built_at' = index_built_at]_vars

\* ----------------------------------------------------------------- swipes
\* SwipeService.record_swipe, called by POST /matching/swipe/{uid}, a sync
\* endpoint that runs on the thread pool.  Each thread makes one call; the
\* steps of a call are its reads and writes of the document store, each of
\* which may fail, and the steps of the threads interleave.
NumSwipeUsers == 2
NumSwipeThreads == 2
SwipeUsers == 1..NumSwipeUsers
SwipeThreads == 1..NumSwipeThreads
SwipePairs == SwipeUsers \X SwipeUsers
Actions == {"like", "pass", "superlike"}

\* no swipe document "{user}_{target}"
NoSwipe == "none"

\* match_id: the two uids, sorted and joined
MatchId(uid1, uid2) == IF uid1 <= uid2 THEN <<uid1, uid2>> ELSE <<uid2, uid1>>

\* the match document _create_match sets (lines 97-105)
MatchDoc(uid1, uid2) == [id |-> MatchId(uid1, uid2), user1_uid |-> uid1, user2_uid |-> uid2]

\* the test of the reverse swipe that counts any stored reverse swipe as a
\* like
IsMutualLikeAnyAction(reverse_swipe) == reverse_swipe # NoSwipe

\* the test of the reverse swipe (lines 70-72): it exists and its action is
\* "like"
IsMutualLike(reverse_swipe) == reverse_swipe # NoSwipe /\ reverse_swipe = "like"

\* a thread before the first step of record_swipe(user_uid, target_uid,
\* action); read is the reverse swipe it read, if it read one
SwipeCall(user_uid, target_uid, action) ==
    [user_uid |-> user_uid, target_uid |-> target_uid, action |-> action, pc |-> "set",
     is_match |-> FALSE, read |-> NoSwipe, has_read |-> FALSE, created |-> FALSE,
     raised |-> "none"]

InitSwipes ==
    /\ swipes \in [SwipePairs -> {NoSwipe, "like", "pass"}]
    /\ \A u \in SwipeUsers : swipes[<<u, u>>] = NoSwipe
    /\ matches = {MatchDoc(p[1], p[2]) : p \in {q \in SwipePairs :
                      /\ q[1] < q[2]
                      /\ swipes[q] = "like"
                      /\ swipes[<<q[2], q[1]>>] = "like"}}
    /\ th \in [SwipeThreads -> {SwipeCall(u, t, a) : u \in SwipeUsers, t \in SwipeUsers,
                                                     a \in Actions}]
    /\ store = [uid \in UIDs |-> NoProfile]
    /\ hash_order = ListOf(Features)
    /\ index = EmptyIndex
    /\ index_built = FALSE
    /\ index_built_at = None
    /\ now = 0
    /\ knn_in = NoKnn
    /\ knn_out = NotRun
    /\ last = NoCall
    /\ norm_in = NoNorm
    /\ norm_out = NotNormalized
    /\ events = NoEvents

SwipeUnchanged ==
    UNCHANGED <<store, hash_order, index, index_built, index_built_at, now, knn_in, knn_out,
                last, norm_in, norm_out, events>>

\* record_swipe up to swipe_ref.set (lines 47-61)
SetSwipe(t) ==
    /\ th[t].pc = "set"
    /\ \E ok \in BOOLEAN :
           IF th[t].user_uid = th[t].target_uid \/ th[t].action \notin {"like", "pass"}
           THEN /\ th' = [th EXCEPT ![t].pc = "raised", ![t].raised = "ValidationError"]
                /\ UNCHANGED swipes
           ELSE IF ~ok
           THEN /\ th' = [th EXCEPT ![t].pc = "raised", ![t].raised = "DatabaseError"]
                /\ UNCHANGED swipes
           ELSE /\ swipes' = [swipes EXCEPT ![<<th[t].user_uid, th[t].target_uid>>] =
                                                th[t].action]
                /\ th' = [th EXCEPT ![t].pc = IF th[t].action = "like" THEN "get"
                                              ELSE "returned"]
    /\ UNCHANGED matches
    /\ SwipeUnchanged

\* record_swipe: reverse_swipe_ref.get() and the test of what it holds
\* (lines 65-72)
GetReverseSwipe(t) ==
    /\ th[t].pc = "get"
    /\ \E ok \in BOOLEAN :
           IF ~ok
           THEN th' = [th EXCEPT ![t].pc = "raised", ![t].raised = "DatabaseError"]
           ELSE \E reverse_swipe \in {swipes[<<th[t].target_uid, th[t].user_uid>>]} :
                    th' = [th EXCEPT ![t].read = reverse_swipe,
                                     ![t].has_read = TRUE,
                                     ![t].is_match = IsMutualLike(reverse_swipe),
                                     ![t].pc = IF IsMutualLike(reverse_swipe)
                                               THEN "create" ELSE "returned"]
    /\ UNCHANGED <<swipes, matches>>
    /\ SwipeUnchanged

\* _create_match (lines 93-111) and the return of record_swipe
CreateMatch(t) ==
    /\ th[t].pc = "create"
    /\ \E ok \in BOOLEAN :
           IF ~ok
           THEN /\ th' = [th EXCEPT ![t].pc = "raised", ![t].raised = "DatabaseError"]
                /\ UNCHANGED matches
           ELSE \E doc \in {MatchDoc(th[t].user_uid, th[t].target_uid)} :
                    /\ matches' = {m \in matches : m.id # doc.id} \cup {doc}
                    /\ th' = [th EXCEPT ![t].created = TRUE, ![t].pc = "returned"]
    /\ UNCHANGED swipes
    /\ SwipeUnchanged

NextSwipes ==
    \E t \in SwipeThreads :
        \/ SetSwipe(t)
        \/ GetReverseSwipe(t)
        \/ CreateMatch(t)

SpecSwipes == InitSwipes /\ [][NextSwipes]_vars

HasMatch(u, t) == \E m \in matches : m.id = MatchId(u, t)

\* C28: a record_swipe(u, t, "like") that returns has is_match = true, and
\* has written the match document of {u, t}, exactly when the swipe t -> u it
\* read was a like; and when two calls in which u and t like each other have
\* both returned, whatever their interleaving, one of them has returned
\* is_match = true and the match document of {u, t} exists.
C28_MutualLikesMatch ==
    /\ \A t \in SwipeThreads :
           (th[t].pc = "returned" /\ th[t].action = "like") =>
               /\ th[t].has_read
               /\ th[t].is_match <=> th[t].read = "like"
               /\ th[t].created <=> th[t].is_match
               /\ th[t].is_match => HasMatch(th[t].user_uid, th[t].target_uid)
    /\ \A a, b \in SwipeThreads :
           (/\ a # b
            /\ th[a].pc = "returned" /\ th[b].pc = "returned"
            /\ th[a].action = "like" /\ th[b].action = "like"
            /\ th[a].user_uid = th[b].target_uid /\ th[a].target_uid = th[b].user_uid)
           => /\ th[a].is_match \/ th[b].is_match
              /\ HasMatch(th[a].user_uid, th[a].target_uid)

\* two overlapping calls in which u and t like each other for the first
\* time, both returned, one with is_match = true and one without
C28_Witness ==
    \E a, b \in SwipeThreads :
        /\ th[a].pc = "returned" /\ th[b].pc = "returned"
        /\ th[a].action = "like" /\ th[b].action = "like"
        /\ th[a].user_uid = th[b].target_uid /\ th[a].target_uid = th[b].user_uid
        /\ th[a].user_uid # th[a].target_uid
        /\ th[a].read = NoSwipe /\ ~th[a].is_match
        /\ th[b].is_match
        /\ HasMatch(th[a].user_uid, th[a].target_uid)

\* ----------------------------------------------------------------- sign-ups that overlap
\* One stored event; each thread makes one add_attendee_to_event or
\* remove_attendee_from_event call on it and keeps how the call left.  The
\* steps of a call are event_ref.get with the checks, and event_ref.update.
SignupEvent == 1
SignupLists == {<<>>} \cup {<<u>> : u \in AttendeeUids}

SignupCall(op, user_uid) ==
    [op |-> op, user_uid |-> user_uid, pc |-> "get", current_attendees |-> <<>>,
     exception |-> NoException]

InitSignups ==
    /\ \E attendees \in SignupLists, max_attendees \in 1..MaxCapacity :
           events = [e \in EventIds |->
                        [HikingEvent(max_attendees) EXCEPT !.attendees = attendees]]
    /\ th \in [EventThreads -> {SignupCall(op, u) : op \in {"add", "remove"},
                                                    u \in AttendeeUids}]
    /\ store = [u \in UIDs |-> NoProfile]
    /\ hash_order = ListOf(Features)
    /\ index = EmptyIndex
    /\ index_built = FALSE
    /\ index_built_at = None
    /\ now = 0
    /\ knn_in = NoKnn
    /\ knn_out = NotRun
    /\ norm_in = NoNorm
    /\ norm_out = NotNormalized
    /\ last = NoEventCall
    /\ swipes = NoSwipes
    /\ matches = NoMatches

\* event_ref.get, the checks and the change of the list read (lines 194-214,
\* 250-265); a check that fails ends the call with the RuntimeError of the
\* except clause
SignupGet(t) ==
    /\ th[t].pc = "get"
    /\ \E c \in {IF th[t].op = "add"
                 THEN add_attendee_checks(events[SignupEvent], th[t].user_uid)
                 ELSE remove_attendee_checks(events[SignupEvent], th[t].user_uid)} :
           th' = [th EXCEPT
                     ![t].current_attendees = c.current_attendees,
                     ![t].exception = IF c.exception.type = "none" THEN NoException
                                      ELSE RuntimeError(ExceptPrefix(th[t].op), c.exception),
                     ![t].pc = IF c.exception.type = "none" THEN "update" ELSE "raised"]
    /\ UNCHANGED <<swipes, matches, store, hash_order, index, index_built, index_built_at,
                   now, knn_in, knn_out, last, norm_in, norm_out, events>>

\* event_ref.update with the list the call holds, and the return of the
\* call with success (lines 217-230, 268-281)
SignupUpdate(t) ==
    /\ th[t].pc = "update"
    /\ events' = [events EXCEPT ![SignupEvent].attendees = th[t].current_attendees]
    /\ th' = [th EXCEPT ![t].pc = "returned"]
    /\ UNCHANGED <<swipes, matches, store, hash_order, index, index_built, index_built_at,
                   now, knn_in, knn_out, last, norm_in, norm_out>>

NextSignups ==
    \E t \in EventThreads :
        \/ SignupGet(t)
        \/ SignupUpdate(t)

SpecSignups == InitSignups /\ [][NextSignups]_vars

AllReturned == \A t \in EventThreads : th[t].pc \in {"returned", "raised"}

\* C29: once all calls have returned, every user whose add returned success,
\* and whom no remove that returned success has removed, is in the stored
\* attendee list.
C29_NoSignupLost ==
    AllReturned =>
        \A t \in EventThreads :
            (/\ th[t].op = "add"
             /\ th[t].pc = "returned"
             /\ \A r \in EventThreads :
                    ~(th[r].op = "remove" /\ th[r].pc = "returned"
                      /\ th[r].user_uid = th[t].user_uid))
            => th[t].user_uid \in Range(events[SignupEvent].attendees)

\* ----------------------------------------------------------------- potential matches
\* GET /matching/potential-matches/{uid}: the swiped users are fetched,
\* find_matches is asked for 2 * limit matches, and the matches are filtered.
\* Swipes are recorded one call at a time by the first NumSwipers users.
NumPotentialUsers == 4
NumSwipers == 1
MaxLimit == 1
PotentialUsers == 1..NumPotentialUsers
Swipers == 1..NumSwipers
Limits == 1..MaxLimit
PotentialProfiles == {Profile(ListOf(1..n)) : n \in 1..NumStoredTags}

\* get_swiped_users (lines 113-135): the targets of the swipes of user_uid;
\* the empty set when the store raises
get_swiped_users(sw, user_uid, db_down) ==
    IF db_down THEN {}
    ELSE {t \in PotentialUsers : sw[<<user_uid, t>>] # NoSwipe}

\* the loop over the matches (lines 170-193): the uids and similarities kept
RECURSIVE FilterMatches(_, _, _, _, _, _)
FilterMatches(potential_matches, found, i, exclude_set, limit, db) ==
    IF i > Len(found) THEN potential_matches
    ELSE IF found[i][1] \in exclude_set
    THEN FilterMatches(potential_matches, found, i + 1, exclude_set, limit, db)
    ELSE IF Len(potential_matches) >= limit THEN potential_matches
    ELSE IF db[found[i][1]].kind # "none"
    THEN FilterMatches(Append(potential_matches, found[i]), found, i + 1, exclude_set,
                       limit, db)
    ELSE FilterMatches(potential_matches, found, i + 1, exclude_set, limit, db)

\* the call as it ended: its arguments, the swiped set it fetched, what
\* find_matches returned and what the endpoint returned
PotentialOutcome(uid, limit, exclude_swiped, db_down, exclude_set, q, db) ==
    [op |-> "get_potential_matches", uid |-> uid, limit |-> limit,
     exclude_swiped |-> exclude_swiped, db_down |-> db_down, exclude_set |-> exclude_set,
     raised |-> q.raised, found |-> q.results,
     matches |-> IF q.raised THEN <<>>
                 ELSE FilterMatches(<<>>, q.results, 1, exclude_set, limit, db)]

InitPotential ==
    /\ store \in [PotentialUsers -> PotentialProfiles]
    /\ swipes = [p \in PotentialUsers \X PotentialUsers |-> NoSwipe]
    /\ matches = NoMatches
    /\ hash_order = ListOf(Features)
    /\ index = EmptyIndex
    /\ index_built = FALSE
    /\ index_built_at = None
    /\ now = 0
    /\ knn_in = NoKnn
    /\ knn_out = NotRun
    /\ last = NoCall
    /\ th = NoThreads
    /\ norm_in = NoNorm
    /\ norm_out = NotNormalized
    /\ events = NoEvents

\* POST /matching/swipe/{uid}: one record_swipe from its start to its end
\* (swipe_service.py lines 47-84)
RecordSwipe ==
    /\ \E user_uid \in Swipers, target_uid \in PotentialUsers, action \in {"like", "pass"} :
           /\ user_uid # target_uid
           /\ swipes[<<user_uid, target_uid>>] # action
           /\ swipes' = [swipes EXCEPT ![<<user_uid, target_uid>>] = action]
           /\ matches' = IF action = "like" /\ IsMutualLike(swipes[<<target_uid, user_uid>>])
                         THEN {m \in matches : m.id # MatchId(user_uid, target_uid)}
                              \cup {MatchDoc(user_uid, target_uid)}
                         ELSE matches
    /\ UNCHANGED <<store, hash_order, index, index_built, index_built_at, now, knn_in,
                   knn_out, last, th, norm_in, norm_out, events>>

\* get_potential_matches (api/v1/matching.py lines 138-198)
GetPotentialMatches ==
    /\ \E uid \in PotentialUsers, limit \in Limits, exclude_swiped \in BOOLEAN,
          db_down \in BOOLEAN :
           \E exclude_set \in {IF exclude_swiped THEN get_swiped_users(swipes, uid, db_down)
                               ELSE {}} :
               \E q \in {find_matches(Self, store, uid, limit * 2, Zero, TRUE, db_down)} :
                   /\ index' = q.self.index
                   /\ index_built' = q.self.index_built
                   /\ index_built_at' = q.self.index_built_at
                   /\ last' = PotentialOutcome(uid, limit, exclude_swiped, db_down,
                                               exclude_set, q, store)
    /\ UNCHANGED <<swipes, matches, norm_in, norm_out, events, store, hash_order, now,
                   knn_in, knn_out, th>>

NextPotential ==
    \/ RecordSwipe
    \/ GetPotentialMatches

SpecPotential == InitPotential /\ [][NextPotential]_vars

\* the similarity of the stored interests of two users
StoredSim(a, b) == ExactSim(get_profile_vector(store[a]), get_profile_vector(store[b]))

\* the users get_potential_matches(uid) may offer: indexed, not uid, of
\* non-zero similarity to uid, with a profile and not in excluded
Unswiped(uid, excluded) ==
    {d \in index.doc_ids \ ({uid} \cup excluded) :
        store[d].kind # "none" /\ StoredSim(uid, d) > Zero}

\* C30: when at least limit indexed users of non-zero similarity to uid,
\* with a profile, have not been swiped by uid, get_potential_matches(uid,
\* limit, exclude_swiped = true) returns exactly limit users, none of them
\* swiped (the store answering every read).
C30_ExclusionsDoNotStarve ==
    (/\ last.op = "get_potential_matches"
     /\ last.exclude_swiped
     /\ ~last.db_down
     /\ Cardinality(Unswiped(last.uid, last.exclude_set)) >= last.limit)
    => /\ ~last.raised
       /\ Len(last.matches) = last.limit
       /\ \A i \in 1..Len(last.matches) : last.matches[i][1] \notin last.exclude_set

====
